---- MODULE Spec2Model ----
(***************************************************************************)
(* Model of the voice API router's error handler                           *)
(* (src/src/utils/error-handler.js, class VoiceErrorHandler): one handler  *)
(* object with its per-provider circuit breakers and statistics, shared by *)
(* several executeWithFallback calls that interleave at their awaits.      *)
(*                                                                         *)
(* JavaScript runs each stretch of code between two awaits without         *)
(* interruption, so every action below is one such stretch: from the       *)
(* resumption of a call (or its start) to its next await, return or throw. *)
(*                                                                         *)
(* The second half models the realtime proxy of src/server.js (class       *)
(* WebSocketSessionHandler): one object per client WebSocket, relaying     *)
(* between the client and an upstream provider WebSocket. Its actions are  *)
(* the event handlers of the two sockets. The two halves share no state.   *)
(***************************************************************************)
EXTENDS Integers, Sequences, FiniteSets, TLC

\* ------------------------------------------------------------------ bounds

\* Number of executeWithFallback calls that may be in progress at once.
NCalls == 2
\* Number of executeWithFallback calls started over a behaviour.
MaxCalls == 2
\* Largest `retries` a caller passes.
MaxRetriesArg == 2
\* Longest fallbackProviders list a caller passes.
MaxFallbacks == 1
\* Number of clock steps a behaviour takes.
MaxTicks == 1
\* Longest fallbackProviders list, and largest `retries`, of the calls that
\* exercise the fallback loop (SpecFallbacks).
MaxFallbackList == 2
MaxRetriesShort == 1
\* Number of realtime sessions (client WebSocket connections).
NSessions == 1
\* Per session: the response.audio.delta events, the other events of the
\* upstream socket, and the messages of the client, that a behaviour has.
MaxDeltas == 3
MaxProviderEvents == 2
MaxClientMessages == 2
\* Most of the substrings createVoiceError looks for that one error message
\* holds (SpecClassify).
MaxSubstrings == 2
\* Largest attempt number calculateRetryDelay is called with (SpecDelay).
MaxAttempt == 6

\* Method calls made on one adapter (SpecAdapter), and requests the HTTP
\* endpoints route to an adapter (SpecEndpoints).
MaxUses == 4
MaxRouted == 2

\* When calls are made for ever: no call names as its primary a provider that
\* has recorded this many requests.
MaxRequests == 4
\* Number of sessions open side by side (SpecPair), and the messages of the
\* clients and of the provider that a behaviour of theirs has in all.
NPair == 2
MaxPairEvents == 2

\* ------------------------------------------------------- program constants

\* constructor: options.circuitBreakerThreshold || 5
DefaultThreshold == 5
\* constructor: options.circuitBreakerTimeout || 30000 (milliseconds)
DefaultBreakerTimeout == 30000
\* constructor: options.retryDelay || 1000 (milliseconds)
DefaultRetryDelay == 1000
\* calculateRetryDelay: maxDelay, and the factor of Math.random() (milliseconds)
MaxDelay == 30000
JitterRange == 1000
\* Milliseconds the clock advances in one step of the model: Date.now() is
\* read at whole multiples of the default cooldown.
TickMs == DefaultBreakerTimeout

\* Values of options.circuitBreakerThreshold the handler is constructed with;
\* 0 stands for an absent (falsy) option.
ThresholdOptions == {0, 2}

\* Providers with a breaker: two of the fourteen ids initializeCircuitBreakers
\* registers.
Providers == {"deepgram", "whisper"}

Calls == 1..NCalls

Null == -1

VARIABLES
    now,                      \* Date.now()
    circuitBreakerThreshold,  \* this.circuitBreakerThreshold
    circuitBreakerTimeout,    \* this.circuitBreakerTimeout
    circuitBreakers,          \* this.circuitBreakers
    errorStats,               \* this.errorStats
    calls,                    \* the executeWithFallback activations
    started,                  \* number of calls started so far
    trials,                   \* per provider: attempts started since its breaker
                              \* last became HALF_OPEN (0 outside HALF_OPEN)
    sessions,                 \* the WebSocketSessionHandler objects of server.js
    retryDelay,               \* this.retryDelay
    backoff,                  \* what calculateRetryDelay returned last, and for
                              \* which attempt and Math.random() it did
    adapter,                  \* the adapter VoiceRouter.routeRequest returned last
    endpoint                  \* the request a VoiceAPIEndpoints handler is serving

vars == <<now, circuitBreakerThreshold, circuitBreakerTimeout, circuitBreakers,
          errorStats, calls, started, trials, sessions, retryDelay, backoff,
          adapter, endpoint>>

\* The variables of the error handler.
handlerVars == <<now, circuitBreakerThreshold, circuitBreakerTimeout, circuitBreakers,
                 errorStats, calls, started, trials, retryDelay, backoff>>

\* ------------------------------------------------------------ constructor

\* constructor, lines 11-12: `options.x || default`
OrDefault(opt, default) == IF opt = 0 THEN default ELSE opt

\* initializeCircuitBreakers: the breaker of every registered provider
InitialBreaker ==
    [state |-> "CLOSED", failures |-> 0,
     lastFailureTime |-> Null, nextAttemptTime |-> Null]

\* initializeCircuitBreakers: the statistics of every registered provider
\* (the counters; errorRate is totalErrors / totalRequests)
InitialStats == [totalRequests |-> 0, totalErrors |-> 0]

\* ------------------------------------------------------------------ errors

\* The timer's rejection in executeWithTimeout:
\* new VoiceError('Operation timed out', 'TIMEOUT', {timeout})
TimeoutError ==
    [voice |-> TRUE, type |-> "TIMEOUT", isRetryable |-> TRUE,
     provider |-> "none", attempt |-> Null, message |-> {"Operation timed out"}]

\* A plain Error the operation rejects with; its message is given by the set of
\* the substrings createVoiceError looks for that it contains.
RawError(tokens) ==
    [voice |-> FALSE, type |-> "Error", isRetryable |-> TRUE,
     provider |-> "none", attempt |-> Null, message |-> tokens]

\* The messages the operation rejects with in the model.
ErrorMessages == {{"401"}}

NoError == [voice |-> FALSE, type |-> "null", isRetryable |-> TRUE,
            provider |-> "none", attempt |-> Null, message |-> {}]

\* error.message.includes(token), for either of two tokens
Includes(error, a, b) == a \in error.message \/ b \in error.message

\* createVoiceError: the type it assigns to a plain Error
ErrorType(error) ==
    IF Includes(error, "timeout", "TIMEOUT") THEN "TIMEOUT"
    ELSE IF Includes(error, "401", "unauthorized") THEN "AUTHENTICATION_ERROR"
    ELSE IF Includes(error, "403", "forbidden") THEN "AUTHORIZATION_ERROR"
    ELSE IF Includes(error, "404", "not found") THEN "NOT_FOUND"
    ELSE IF Includes(error, "429", "rate limit") THEN "RATE_LIMIT_ERROR"
    ELSE IF Includes(error, "500", "502") \/ Includes(error, "503", "503")
         THEN "SERVER_ERROR"
    ELSE IF Includes(error, "ENOTFOUND", "ECONNREFUSED") THEN "NETWORK_ERROR"
    ELSE IF Includes(error, "JSON", "parse") THEN "PARSE_ERROR"
    ELSE "UNKNOWN_ERROR"

\* createVoiceError: a VoiceError is returned as it is, a plain Error is
\* wrapped with its type, provider, attempt and retryability.
createVoiceError(error, provider, attempt) ==
    IF error.voice THEN error
    ELSE [voice |-> TRUE, type |-> ErrorType(error),
          isRetryable |-> ErrorType(error) \notin
              {"AUTHENTICATION_ERROR", "AUTHORIZATION_ERROR", "NOT_FOUND"},
          provider |-> provider, attempt |-> attempt, message |-> error.message]

\* executeWithTimeout: what awaiting it yields. The operation resolves, the
\* operation rejects with an Error, or the timer rejects first with TIMEOUT.
\* A completion of the operation after the timer has fired settles nothing.
Settlements ==
    {[ok |-> TRUE, error |-> NoError], [ok |-> FALSE, error |-> TimeoutError]}
    \cup {[ok |-> FALSE, error |-> RawError(m)] : m \in ErrorMessages}

\* ------------------------------------------------------------ retry delay

\* Math.pow(2, attempt)
RECURSIVE Pow2(_)
Pow2(attempt) == IF attempt = 0 THEN 1 ELSE 2 * Pow2(attempt - 1)

\* Math.min
Min(a, b) == IF a <= b THEN a ELSE b

\* calculateRetryDelay without the cap of maxDelay.
calculateRetryDelayUncapped(baseDelay, attempt, jitter) ==
    baseDelay * Pow2(attempt) + jitter

\* calculateRetryDelay, with baseDelay for this.retryDelay and jitter for
\* Math.random() * 1000
calculateRetryDelay(baseDelay, attempt, jitter) ==
    LET exponentialDelay == baseDelay * Pow2(attempt)
    IN Min(exponentialDelay + jitter, MaxDelay)

\* Values of options.retryDelay the handler is constructed with; 0 stands
\* for an absent (falsy) option.
RetryDelayOptions == {0, 1, 250, 5000, 20000, 40000}

\* Values of Math.random() * 1000, in whole milliseconds.
Jitters == {0, 1, JitterRange \div 2, JitterRange - 1}

\* No delay has been calculated yet.
NoBackoff == [attempt |-> Null, jitter |-> 0, delay |-> 0]

\* --------------------------------------------------------- circuit breaker

\* isProviderAvailable without the cooldown test: an OPEN breaker lets every
\* caller through.
isProviderAvailableNoCooldown(cb, provider, t) == TRUE

\* isProviderAvailable: the value returned
isProviderAvailable(cb, provider, t) ==
    IF provider \notin DOMAIN cb THEN TRUE
    ELSE CASE cb[provider].state = "CLOSED" -> TRUE
           [] cb[provider].state = "OPEN" -> t >= cb[provider].nextAttemptTime
           [] cb[provider].state = "HALF_OPEN" -> TRUE
           [] OTHER -> TRUE

\* isProviderAvailable moving an OPEN breaker to HALF_OPEN without comparing
\* Date.now() with nextAttemptTime.
AfterAvailabilityCheckNoCooldown(cb, provider, t) ==
    IF provider \in DOMAIN cb /\ cb[provider].state = "OPEN"
    THEN [cb EXCEPT ![provider].state = "HALF_OPEN"]
    ELSE cb

\* isProviderAvailable letting the caller through after the cooldown without
\* moving the breaker to HALF_OPEN.
AfterAvailabilityCheckStaysOpen(cb, provider, t) == cb

\* isProviderAvailable: the breakers it leaves (an OPEN breaker whose
\* nextAttemptTime has come becomes HALF_OPEN)
AfterAvailabilityCheck(cb, provider, t) ==
    IF provider \in DOMAIN cb
       /\ cb[provider].state = "OPEN" /\ t >= cb[provider].nextAttemptTime
    THEN [cb EXCEPT ![provider].state = "HALF_OPEN"]
    ELSE cb

\* updateCircuitBreaker opening one failure late (> for >=).
updateCircuitBreakerLate(cb, provider, t, threshold, timeout) ==
    IF provider \notin DOMAIN cb THEN cb
    ELSE LET breaker == cb[provider]
             counted == [breaker EXCEPT !.failures = @ + 1, !.lastFailureTime = t]
         IN [cb EXCEPT ![provider] =
                IF counted.failures > threshold /\ breaker.state = "CLOSED"
                THEN [counted EXCEPT !.state = "OPEN", !.nextAttemptTime = t + timeout]
                ELSE IF breaker.state = "HALF_OPEN"
                THEN [counted EXCEPT !.state = "OPEN", !.nextAttemptTime = t + timeout]
                ELSE counted]

\* updateCircuitBreaker without its HALF_OPEN branch: a failed trial leaves the
\* breaker HALF_OPEN.
updateCircuitBreakerNoReopen(cb, provider, t, threshold, timeout) ==
    IF provider \notin DOMAIN cb THEN cb
    ELSE LET breaker == cb[provider]
             counted == [breaker EXCEPT !.failures = @ + 1, !.lastFailureTime = t]
         IN [cb EXCEPT ![provider] =
                IF counted.failures >= threshold /\ breaker.state = "CLOSED"
                THEN [counted EXCEPT !.state = "OPEN", !.nextAttemptTime = t + timeout]
                ELSE counted]

\* updateCircuitBreaker
updateCircuitBreaker(cb, provider, t, threshold, timeout) ==
    IF provider \notin DOMAIN cb THEN cb
    ELSE LET breaker == cb[provider]
             counted == [breaker EXCEPT !.failures = @ + 1, !.lastFailureTime = t]
         IN [cb EXCEPT ![provider] =
                IF counted.failures >= threshold /\ breaker.state = "CLOSED"
                THEN [counted EXCEPT !.state = "OPEN", !.nextAttemptTime = t + timeout]
                ELSE IF breaker.state = "HALF_OPEN"
                THEN [counted EXCEPT !.state = "OPEN", !.nextAttemptTime = t + timeout]
                ELSE counted]

\* recordSuccess closing a HALF_OPEN breaker but keeping its failure count.
recordSuccessBreakerKeepCount(cb, provider) ==
    IF provider \notin DOMAIN cb THEN cb
    ELSE [cb EXCEPT ![provider].state = IF @ = "HALF_OPEN" THEN "CLOSED" ELSE @]

\* recordSuccess, lines 222-230: the breaker
recordSuccessBreaker(cb, provider) ==
    IF provider \notin DOMAIN cb THEN cb
    ELSE [cb EXCEPT ![provider] =
            [@ EXCEPT !.failures = 0,
                      !.state = IF @ = "HALF_OPEN" THEN "CLOSED" ELSE @]]

\* recordSuccess, lines 232-237: the statistics
recordSuccessStats(st, provider) ==
    IF provider \notin DOMAIN st THEN st
    ELSE [st EXCEPT ![provider].totalRequests = @ + 1]

\* recordRequest
recordRequest(st, provider) ==
    IF provider \notin DOMAIN st THEN st
    ELSE [st EXCEPT ![provider].totalRequests = @ + 1]

\* recordError counting the error twice.
recordErrorTwice(st, provider, error) ==
    IF provider \notin DOMAIN st THEN st
    ELSE [st EXCEPT ![provider].totalErrors = @ + 2]

\* recordError: the counter (lastError and errorTypes are read by nothing here)
recordError(st, provider, error) ==
    IF provider \notin DOMAIN st THEN st
    ELSE [st EXCEPT ![provider].totalErrors = @ + 1]

\* ------------------------------------------------------ executeWithFallback

\* What a call throws; "none" while it has thrown nothing.
NoThrow == [type |-> "none", attempts |-> Null, lastError |-> NoError]

\* An activation of executeWithFallback that is not running.
\*   provider, fallbackProviders, retries: the config it was called with
\*   attempt, lastError:                   its local variables
\*   fb:      index of the fallback the second loop is at (0 before it)
\*   log:     the operation invocations it made, in order, each with its
\*            provider, the loop that made it (stage) and where in that loop
\*            (index: the attempt number or the position in fallbackProviders),
\*            the breaker state it was made in (during; cooling: OPEN with
\*            nextAttemptTime still ahead) and how it settled ("pending",
\*            "ok" or "failed")
\*   timeoutsOnly: every primary attempt that failed so far timed out
\*   outcome: "returned" with result (the index in log of the invocation whose
\*            value is returned) or "threw" with error
IdleCall ==
    [pc |-> "idle", provider |-> "none", fallbackProviders |-> <<>>,
     retries |-> 0, attempt |-> 0, fb |-> 0, lastError |-> NoError,
     log |-> <<>>, timeoutsOnly |-> TRUE,
     outcome |-> "none", result |-> 0, error |-> NoThrow]

\* The breaker state an invocation against provider is made in.
BreakerStateOf(cb, provider) ==
    IF provider \in DOMAIN cb THEN cb[provider].state ELSE "none"

\* trials, after breakers changed: only a HALF_OPEN breaker has trials.
TrialsIn(tr, cb) ==
    [p \in DOMAIN tr |-> IF cb[p].state = "HALF_OPEN" THEN tr[p] ELSE 0]

\* The log with its last invocation settled.
Settled(log, how) == [log EXCEPT ![Len(log)].outcome = how]

\* lines 81-83 and 117-118: recordRequest(provider), then executeWithTimeout
\* calls operation() and the call awaits it.
\* w is the state the running call works on: its own record (call), the
\* breakers (cb), the statistics (st) and the trial counts (tr).
InvokeOn(w, provider, stage, t) ==
    LET entry == [provider |-> provider, stage |-> stage, outcome |-> "pending",
                  index |-> IF stage = "primary" THEN w.call.attempt ELSE w.call.fb,
                  during |-> BreakerStateOf(w.cb, provider),
                  cooling |-> /\ BreakerStateOf(w.cb, provider) = "OPEN"
                              /\ t < w.cb[provider].nextAttemptTime]
    IN [w EXCEPT !.st = recordRequest(@, provider),
                 !.tr = IF BreakerStateOf(w.cb, provider) = "HALF_OPEN"
                        THEN [@ EXCEPT ![provider] = @ + 1] ELSE @,
                 !.call.log = Append(@, entry),
                 !.call.pc = IF stage = "primary" THEN "awaitPrimary"
                                                   ELSE "awaitFallback"]

\* The end of executeWithFallback falling off the function instead of
\* throwing: the caller gets undefined.
ReturnUndefined(w) ==
    [w EXCEPT !.call.pc = "done", !.call.outcome = "returned", !.call.result = 0]

\* lines 133-142: throw ALL_PROVIDERS_FAILED
ThrowAllFailed(w) ==
    [w EXCEPT !.call.pc = "done", !.call.outcome = "threw",
              !.call.error = [type |-> "ALL_PROVIDERS_FAILED",
                              attempts |-> w.call.attempt + 1,
                              lastError |-> w.call.lastError]]

\* lines 71-75: throw PROVIDER_UNAVAILABLE
ThrowUnavailable(w) ==
    [w EXCEPT !.call.pc = "done", !.call.outcome = "threw",
              !.call.error = [type |-> "PROVIDER_UNAVAILABLE",
                              attempts |-> Null, lastError |-> NoError]]

\* lines 109-130, from the i-th fallback on, up to the next await or the
\* throw: an unavailable fallback is passed over, the first available one is
\* invoked.
RECURSIVE FallbackLoop(_, _, _)
FallbackLoop(w, i, t) ==
    IF i > Len(w.call.fallbackProviders) THEN ThrowAllFailed(w)
    ELSE LET fallbackProvider == w.call.fallbackProviders[i]
             checked == [w EXCEPT !.cb = AfterAvailabilityCheck(@, fallbackProvider, t)]
         IN IF ~isProviderAvailable(w.cb, fallbackProvider, t)
            THEN FallbackLoop(checked, i + 1, t)
            ELSE InvokeOn([checked EXCEPT !.call.fb = i], fallbackProvider, "fallback", t)

\* The retry loop waiting again instead of going on.
NextPrimaryAttemptWaitsAgain(w, t) == [w EXCEPT !.call.pc = "delay"]

\* The retry loop running one attempt too many (attempt <= retries + 1).
NextPrimaryAttemptOneMore(w, t) ==
    LET checked == [w EXCEPT !.cb = AfterAvailabilityCheck(@, w.call.provider, t)]
        w1 == [checked EXCEPT !.call.attempt = @ + 1]
    IN IF ~isProviderAvailable(w.cb, w.call.provider, t)
       THEN FallbackLoop(checked, 1, t)
       ELSE IF w1.call.attempt <= w1.call.retries + 1
            THEN InvokeOn(w1, w1.call.provider, "primary", t)
            ELSE FallbackLoop(w1, 1, t)

\* lines 101-104, then the loop header of line 79: break to the fallbacks if
\* the primary is unavailable; else attempt++ and, while attempt <= retries,
\* the next attempt.
NextPrimaryAttempt(w, t) ==
    LET checked == [w EXCEPT !.cb = AfterAvailabilityCheck(@, w.call.provider, t)]
        w1 == [checked EXCEPT !.call.attempt = @ + 1]
    IN IF ~isProviderAvailable(w.cb, w.call.provider, t)
       THEN FallbackLoop(checked, 1, t)
       ELSE IF w1.call.attempt <= w1.call.retries
            THEN InvokeOn(w1, w1.call.provider, "primary", t)
            ELSE FallbackLoop(w1, 1, t)

\* recordSuccess called with the primary's id whichever provider succeeded.
SucceededOnPrimary(w, provider) ==
    LET cb1 == recordSuccessBreaker(w.cb, w.call.provider)
    IN [w EXCEPT !.cb = cb1,
                 !.st = recordSuccessStats(@, w.call.provider),
                 !.tr = TrialsIn(@, cb1),
                 !.call.log = Settled(@, "ok"),
                 !.call.pc = "done", !.call.outcome = "returned",
                 !.call.result = Len(w.call.log)]

\* lines 86-87 and 120-121: recordSuccess(provider) and return result
Succeeded(w, provider) ==
    LET cb1 == recordSuccessBreaker(w.cb, provider)
    IN [w EXCEPT !.cb = cb1,
                 !.st = recordSuccessStats(@, provider),
                 !.tr = TrialsIn(@, cb1),
                 !.call.log = Settled(@, "ok"),
                 !.call.pc = "done", !.call.outcome = "returned",
                 !.call.result = Len(w.call.log)]

\* lines 90-94 and 124-126: createVoiceError, recordError, updateCircuitBreaker
Failed(w, provider, voiceError, t, threshold, timeout) ==
    LET cb1 == updateCircuitBreaker(w.cb, provider, t, threshold, timeout)
    IN [w EXCEPT !.cb = cb1,
                 !.st = recordError(@, provider, voiceError),
                 !.tr = TrialsIn(@, cb1),
                 !.call.log = Settled(@, "failed")]

\* lines 89-105: the catch block of a primary attempt, up to the next await
PrimaryFailed(w, error, t, threshold, timeout) ==
    LET voiceError == createVoiceError(error, w.call.provider, w.call.attempt)
        w1 == Failed([w EXCEPT !.call.lastError = voiceError,
                               !.call.timeoutsOnly = @ /\ voiceError.type = "TIMEOUT"],
                     w.call.provider, voiceError, t, threshold, timeout)
    IN IF w1.call.attempt < w1.call.retries
       THEN [w1 EXCEPT !.call.pc = "delay"]
       ELSE NextPrimaryAttempt(w1, t)

\* The catch block of a fallback attempt going round again on the fallback
\* that just failed.
FallbackFailedRetries(w, error, t, threshold, timeout) ==
    LET fallbackProvider == w.call.fallbackProviders[w.call.fb]
        fallbackError == createVoiceError(error, fallbackProvider, 0)
    IN FallbackLoop(Failed(w, fallbackProvider, fallbackError, t, threshold, timeout),
                    w.call.fb, t)

\* lines 123-129: the catch block of a fallback attempt, then the rest of the
\* fallback loop
FallbackFailed(w, error, t, threshold, timeout) ==
    LET fallbackProvider == w.call.fallbackProviders[w.call.fb]
        fallbackError == createVoiceError(error, fallbackProvider, 0)
    IN FallbackLoop(Failed(w, fallbackProvider, fallbackError, t, threshold, timeout),
                    w.call.fb + 1, t)

\* lines 57-83: the call up to its first await or its throw
Begin(w, t) ==
    LET checked == [w EXCEPT !.cb = AfterAvailabilityCheck(@, w.call.provider, t)]
    IN IF ~isProviderAvailable(w.cb, w.call.provider, t)
       THEN ThrowUnavailable(checked)
       ELSE IF checked.call.attempt <= checked.call.retries
            THEN InvokeOn(checked, checked.call.provider, "primary", t)
            ELSE FallbackLoop(checked, 1, t)

\* ------------------------------------------------- realtime session: audio

Sessions == 1..NSessions

\* A base64 text is the sequence of its characters, each given by its value in
\* the base64 alphabet (A = 0 .. Z = 25, a = 26 .. z = 51, 0 = 52 .. 9 = 61,
\* + = 62, / = 63); Pad is the character '='.
Pad == 64

\* Buffer.poolSize, the size of the ArrayBuffer Node's small Buffers share.
PoolSize == 8192

\* Buffer.prototype.toString('base64'): three bytes to four characters, the
\* last group padded with '='
RECURSIVE toBase64(_)
toBase64(bytes) ==
    IF bytes = <<>> THEN <<>>
    ELSE IF Len(bytes) = 1
         THEN <<bytes[1] \div 4, (bytes[1] % 4) * 16, Pad, Pad>>
    ELSE IF Len(bytes) = 2
         THEN <<bytes[1] \div 4, (bytes[1] % 4) * 16 + bytes[2] \div 16,
                (bytes[2] % 16) * 4, Pad>>
    ELSE <<bytes[1] \div 4, (bytes[1] % 4) * 16 + bytes[2] \div 16,
           (bytes[2] % 16) * 4 + bytes[3] \div 64, bytes[3] % 64>>
         \o toBase64(SubSeq(bytes, 4, Len(bytes)))

\* Buffer.from(text, 'base64') reads up to the first '=': the characters it
\* decodes.
RECURSIVE UpToPad(_)
UpToPad(text) ==
    IF text = <<>> \/ Head(text) = Pad THEN <<>>
    ELSE <<Head(text)>> \o UpToPad(Tail(text))

\* The bytes of a run of base64 characters: four characters to three bytes,
\* a last group of two or three characters to one or two bytes.
RECURSIVE fromSextets(_)
fromSextets(x) ==
    IF Len(x) <= 1 THEN <<>>
    ELSE IF Len(x) = 2 THEN <<x[1] * 4 + x[2] \div 16>>
    ELSE IF Len(x) = 3
         THEN <<x[1] * 4 + x[2] \div 16, (x[2] % 16) * 16 + x[3] \div 4>>
    ELSE <<x[1] * 4 + x[2] \div 16, (x[2] % 16) * 16 + x[3] \div 4,
           (x[3] % 4) * 64 + x[4]>>
         \o fromSextets(SubSeq(x, 5, Len(x)))

\* Buffer.from(text, 'base64'): the bytes of the Buffer
fromBase64(text) == fromSextets(UpToPad(text))

\* The length Buffer.from takes a base64 text to decode to, before decoding
\* it: three quarters of its length without its last one or two '='.
base64ByteLength(text) ==
    LET n == Len(text)
        n1 == IF n >= 1 /\ text[n] = Pad THEN n - 1 ELSE n
        n2 == IF n1 > 1 /\ text[n1] = Pad THEN n1 - 1 ELSE n1
    IN (n2 * 3) \div 4

\* Buffer.from(new Int16Array(data).buffer): each element is taken modulo
\* 2^16 and stored low byte first.
RECURSIVE int16Bytes(_)
int16Bytes(data) ==
    IF data = <<>> THEN <<>>
    ELSE <<(Head(data) % 65536) % 256, (Head(data) % 65536) \div 256>>
         \o int16Bytes(Tail(data))

\* Array.from(new Int16Array(buffer)) for a buffer of even length: two bytes
\* to one signed 16-bit sample, low byte first.
RECURSIVE int16Samples(_)
int16Samples(bytes) ==
    IF Len(bytes) < 2 THEN <<>>
    ELSE LET u == bytes[1] + 256 * bytes[2]
         IN <<IF u >= 32768 THEN u - 65536 ELSE u>>
            \o int16Samples(SubSeq(bytes, 3, Len(bytes)))

\* this.audioBuffer.join('')
RECURSIVE join(_)
join(texts) == IF texts = <<>> THEN <<>> ELSE Head(texts) \o join(Tail(texts))

\* The delta texts the provider sends, in the order it sends them: "QQ==",
\* "Qg==", "Qw==" (one byte each: 0x41, 0x42, 0x43), and round again. A delta
\* is never the empty text.
ResponseAudio ==
    <<<<16, 16, Pad, Pad>>, <<16, 32, Pad, Pad>>, <<16, 48, Pad, Pad>>>>

\* The sample arrays the client sends as audio_input.data.
SampleArrays == {<<1>>, <<-2, 16961, 3>>}

\* lines 427-428: what Array.from(new Int16Array(audioData.buffer)) is made
\* of. audioData.buffer is the ArrayBuffer behind the Buffer, not the Buffer:
\* for a short text it is the pool every small Buffer is cut from (PoolSize
\* bytes, the decoded bytes somewhere in it); for a long text it is the
\* Buffer's own allocation, of the decoded length or, in the builds that
\* allocate before decoding, of the length estimated from the text. A text of
\* the model stands for texts of either size. byteLength is the size of the
\* ArrayBuffer the array spans and bytes the decoded bytes in it; an
\* Int16Array cannot span an odd number of bytes (RangeError).
AudioArrays(completeAudio) ==
    LET audioData == fromBase64(completeAudio)
    IN {[bytes |-> audioData, byteLength |-> n] :
           n \in {PoolSize, Len(audioData), base64ByteLength(completeAudio)}}

\* ----------------------------------------------- realtime session: object

NoData == [bytes |-> <<>>, byteLength |-> 0]

\* A message to the client (type, and data when it is an audio_output) and a
\* message to the provider (type, and audio when it is an append).
ToClient(type) == [type |-> type, data |-> NoData]
ToOpenAI(type) == [type |-> type, audio |-> <<>>]

\* A session that no client has opened yet. A session has the fields of
\* WebSocketSessionHandler, with each socket given by its readyState, and
\*   toClient, toOpenAI: what was passed to clientWs.send and openaiWs.send
\*   event: the event of its sockets whose listener ran last
\*   deltas, others, messages: how many response.audio.delta messages, other
\*       provider messages and client messages its listeners have run for
NoSession ==
    [clientWs |-> "none", openaiWs |-> "null", isConnectedToOpenAI |-> FALSE,
     audioBuffer |-> <<>>, toClient |-> <<>>, toOpenAI |-> <<>>,
     event |-> [type |-> "none", data |-> <<>>],
     deltas |-> 0, others |-> 0, messages |-> 0]

\* sendToClient
sendToClient(x, message) ==
    IF x.clientWs = "OPEN" THEN [x EXCEPT !.toClient = Append(@, message)] ELSE x

\* sendToOpenAI
sendToOpenAI(x, message) ==
    IF x.openaiWs # "null" /\ x.openaiWs = "OPEN"
    THEN [x EXCEPT !.toOpenAI = Append(@, message)] ELSE x

\* cleanup closing only a socket that has opened.
cleanupOpenOnly(x) ==
    IF x.openaiWs # "null"
    THEN [x EXCEPT !.openaiWs = IF @ = "OPEN" THEN "CLOSING" ELSE @]
    ELSE x

\* cleanup: openaiWs.close() starts the closing handshake of a socket that is
\* connecting or open and does nothing to one that is closing or closed.
cleanup(x) ==
    IF x.openaiWs # "null"
    THEN [x EXCEPT !.openaiWs = IF @ \in {"CONNECTING", "OPEN"} THEN "CLOSING" ELSE @]
    ELSE x

\* constructor and connectToOpenAI, which runs to its end within it: without
\* an API key the client is told and no socket is made.
construct(hasKey) ==
    LET x == [NoSession EXCEPT !.clientWs = "OPEN"]
    IN IF ~hasKey THEN sendToClient(x, ToClient("error"))
       ELSE [x EXCEPT !.openaiWs = "CONNECTING"]

\* The 'open' listener of openaiWs telling the client without configuring the
\* session.
onOpenAIOpenUnconfigured(x) ==
    sendToClient([x EXCEPT !.isConnectedToOpenAI = TRUE], ToClient("connected"))

\* The 'open' listener of openaiWs
onOpenAIOpen(x) ==
    sendToClient(sendToOpenAI([x EXCEPT !.isConnectedToOpenAI = TRUE],
                              ToOpenAI("session.update")),
                 ToClient("connected"))

\* handleClientMessage asking for the response before committing the buffer.
handleClientMessageResponseFirst(x, message) ==
    CASE message.type = "audio_input" ->
            IF x.isConnectedToOpenAI
            THEN sendToOpenAI(x, [type |-> "input_audio_buffer.append",
                                  audio |-> toBase64(int16Bytes(message.data))])
            ELSE x
      [] message.type = "commit_audio" ->
            IF x.isConnectedToOpenAI
            THEN sendToOpenAI(sendToOpenAI(x, ToOpenAI("response.create")),
                              ToOpenAI("input_audio_buffer.commit"))
            ELSE x
      [] OTHER -> x

\* handleClientMessage
handleClientMessage(x, message) ==
    CASE message.type = "audio_input" ->
            IF x.isConnectedToOpenAI
            THEN sendToOpenAI(x, [type |-> "input_audio_buffer.append",
                                  audio |-> toBase64(int16Bytes(message.data))])
            ELSE x
      [] message.type = "commit_audio" ->
            IF x.isConnectedToOpenAI
            THEN sendToOpenAI(sendToOpenAI(x, ToOpenAI("input_audio_buffer.commit")),
                              ToOpenAI("response.create"))
            ELSE x
      [] OTHER -> x

\* The 'message' listener of clientWs answering with an error every message
\* that handleClientMessage drops.
onClientMessageAnswered(x, message) ==
    IF message.type = "not JSON" \/ handleClientMessage(x, message) = x
    THEN sendToClient(x, ToClient("error"))
    ELSE handleClientMessage(x, message)

\* The 'message' listener of clientWs: text that is not JSON is answered with
\* an error, anything else goes to handleClientMessage.
onClientMessage(x, message) ==
    IF message.type = "not JSON" THEN sendToClient(x, ToClient("error"))
    ELSE handleClientMessage(x, message)

\* handleOpenAIMessage connecting to the provider anew after a provider error.
handleOpenAIMessageReconnect(x, message, audioArray) ==
    CASE message.type = "input_audio_buffer.speech_started" ->
            sendToClient(x, ToClient("speech_started"))
      [] message.type = "input_audio_buffer.speech_stopped" ->
            sendToClient(x, ToClient("speech_stopped"))
      [] message.type = "conversation.item.input_audio_transcription.completed" ->
            sendToClient(x, ToClient("transcript_input"))
      [] message.type = "response.audio.delta" ->
            IF message.data # <<>>
            THEN [x EXCEPT !.audioBuffer = Append(@, message.data)] ELSE x
      [] message.type = "response.audio.done" ->
            IF Len(x.audioBuffer) > 0
            THEN IF audioArray.byteLength % 2 # 0 THEN x
                 ELSE [sendToClient(x, [type |-> "audio_output", data |-> audioArray])
                          EXCEPT !.audioBuffer = <<>>]
            ELSE x
      [] message.type = "response.done" ->
            sendToClient(x, ToClient("response_complete"))
      [] message.type = "error" ->
            [sendToClient(x, ToClient("error"))
                EXCEPT !.openaiWs = "CONNECTING", !.isConnectedToOpenAI = FALSE]
      [] OTHER -> x

\* handleOpenAIMessage; audioArray is what line 428 makes of the joined text.
\* The RangeError of an Int16Array over an odd number of bytes leaves the
\* function at line 428, before the send and the clearing of the buffer.
handleOpenAIMessage(x, message, audioArray) ==
    CASE message.type = "input_audio_buffer.speech_started" ->
            sendToClient(x, ToClient("speech_started"))
      [] message.type = "input_audio_buffer.speech_stopped" ->
            sendToClient(x, ToClient("speech_stopped"))
      [] message.type = "conversation.item.input_audio_transcription.completed" ->
            sendToClient(x, ToClient("transcript_input"))
      [] message.type = "response.audio.delta" ->
            IF message.data # <<>>
            THEN [x EXCEPT !.audioBuffer = Append(@, message.data)] ELSE x
      [] message.type = "response.audio.done" ->
            IF Len(x.audioBuffer) > 0
            THEN IF audioArray.byteLength % 2 # 0 THEN x
                 ELSE [sendToClient(x, [type |-> "audio_output", data |-> audioArray])
                          EXCEPT !.audioBuffer = <<>>]
            ELSE x
      [] message.type = "response.done" ->
            sendToClient(x, ToClient("response_complete"))
      [] message.type = "error" ->
            sendToClient(x, ToClient("error"))
      [] OTHER -> x

\* The 'close' listener of openaiWs
onOpenAIClose(x) ==
    sendToClient([x EXCEPT !.isConnectedToOpenAI = FALSE], ToClient("disconnected"))

\* The 'error' listener of openaiWs
onOpenAIError(x) == sendToClient(x, ToClient("error"))

\* ------------------------------------------------------ voice router: adapters

\* Four of the fourteen providers of getAdapterClass: the two adapters that
\* hold a WebSocket and the two HTTP adapters that are implemented.
AdapterClasses == {"openai-realtime", "deepgram", "whisper", "elevenlabs"}

\* OpenAIRealtimeAdapter and DeepgramAdapter
Streaming == {"openai-realtime", "deepgram"}

\* voice-providers-config.js: the type of each provider
ProviderType(provider) ==
    CASE provider = "openai-realtime" -> "realtime"
      [] provider \in {"deepgram", "whisper"} -> "stt"
      [] provider = "elevenlabs" -> "tts"

\* An adapter object:
\*   class:       the provider whose adapter class it is an instance of
\*   isConnected: this.isConnected
\*   websocket:   readyState of this.websocket ("null" while there is none)
\*   connecting:  the promise connect() returned
\*   sent:        frames handed to the socket while it was open
\*   connectCalled, disconnectCalled: whether the methods were called
\*   uses:        number of method calls made on it
\*   last:        the last method call and the message of what it raised
\*                ("none" when it returned normally)
NoAdapter ==
    [class |-> "none", isConnected |-> FALSE, websocket |-> "null",
     connecting |-> "none", sent |-> 0, connectCalled |-> FALSE,
     disconnectCalled |-> FALSE, uses |-> 0,
     last |-> [op |-> "none", raised |-> "none"]]

\* BaseAdapter's constructor, and `this.websocket = null` of the subclasses
NewAdapter(class) == [NoAdapter EXCEPT !.class = class]

Called(a, op, raised) ==
    [a EXCEPT !.uses = @ + 1, !.last = [op |-> op, raised |-> raised]]

\* connect(): the streaming adapters create the socket and return a pending
\* promise; the HTTP adapters set isConnected.
connect(a) ==
    LET c == [Called(a, "connect", "none") EXCEPT !.connectCalled = TRUE]
    IN IF a.class \in Streaming
       THEN [c EXCEPT !.websocket = "CONNECTING", !.connecting = "pending"]
       ELSE [c EXCEPT !.isConnected = TRUE, !.connecting = "resolved"]

\* websocket.on('open', ...): isConnected, for OpenAI the session.update
\* frame, and resolve()
onOpen(a) ==
    [a EXCEPT !.websocket = "OPEN", !.isConnected = TRUE,
              !.sent = IF a.class = "openai-realtime" THEN @ + 1 ELSE @,
              !.connecting = "resolved"]

\* websocket.on('error', reject): the only other listener. The socket is
\* closed when it reports an error; reject() changes a pending promise only.
onError(a) ==
    [a EXCEPT !.websocket = "CLOSED",
              !.connecting = IF @ = "pending" THEN "rejected" ELSE @]

\* The socket closes with no error; no listener of the adapter hears of it.
onClose(a) == [a EXCEPT !.websocket = "CLOSED"]

\* ws's close(): an open or connecting socket starts closing.
closeSocket(readyState) ==
    IF readyState \in {"CONNECTING", "OPEN"} THEN "CLOSING" ELSE readyState

\* disconnect(): the streaming adapters close the socket they have and clear
\* isConnected; the HTTP adapters inherit BaseAdapter's, which throws.
disconnect(a) ==
    LET c == [a EXCEPT !.disconnectCalled = TRUE]
    IN IF a.class \in Streaming
       THEN IF a.websocket # "null"
            THEN [Called(c, "disconnect", "none") EXCEPT
                     !.websocket = closeSocket(@), !.isConnected = FALSE]
            ELSE Called(c, "disconnect", "none")
       ELSE Called(c, "disconnect", "disconnect() must be implemented by adapter")

\* send(message) of OpenAIRealtimeAdapter, sendAudio(audioData) of
\* DeepgramAdapter. ws's send on a socket that is not open throws or drops the
\* frame, depending on its version (wsThrows).
send(a, wsThrows) ==
    IF ~a.isConnected THEN Called(a, "send", "Not connected")
    ELSE IF a.websocket = "OPEN"
         THEN [Called(a, "send", "none") EXCEPT !.sent = @ + 1]
         ELSE Called(a, "send", IF wsThrows THEN "WebSocket is not open" ELSE "none")

\* process(input) is called: the streaming adapters inherit BaseAdapter's,
\* which throws; the HTTP adapters start their fetch.
process(a) ==
    Called(a, "process", IF a.class \in Streaming THEN "process() must be implemented by adapter"
                                                  ELSE "none")

\* The fetch of process() is over: `!response.ok` throws the API's error.
processed(a, ok) ==
    [a EXCEPT !.last = [op |-> "process",
                        raised |-> IF ok THEN "none" ELSE "API error"]]

\* ----------------------------------------------------- voice router: routing

Routes == {"transcribe", "synthesize", "validate"}

\* The `type` each endpoint passes to routeRequest
RouteType(route) ==
    CASE route = "transcribe" -> "stt"
      [] route = "synthesize" -> "tts"
      [] route = "validate" -> "none"

\* routeRequest, lines 38-41: a provider supports a type that is its own type
\* (none of the capabilities lists holds 'stt' or 'tts').
Supports(provider, type) == type = "none" \/ ProviderType(provider) = type

NoResponse == [status |-> 0, type |-> "none"]

\* A request being served, and the router's usage statistics:
\*   route:    the endpoint
\*   pc:       where its handler is ("connect", "download", "process": the
\*             await it is at; "responded" once the response is sent)
\*   input:    audio_file ("file") or audio_url ("url") of a transcription
\*   res:      the response sent
\*   usage:    voiceRouter.usage[provider].requests
NoRequest ==
    [route |-> "none", pc |-> "idle", input |-> "none", res |-> NoResponse,
     usage |-> [p \in AdapterClasses |-> 0]]

\* res.status(...).json(...): the response is sent.
Respond(e, status, type) ==
    [e EXCEPT !.pc = "responded", !.res = [status |-> status, type |-> type]]

\* The catch block an exception of the handler lands in: status 500 with the
\* endpoint's error type, or, in validateProvider's inner try, `valid: false`.
Catch(e) ==
    CASE e.route = "transcribe" -> Respond(e, 500, "transcription_error")
      [] e.route = "synthesize" -> Respond(e, 500, "synthesis_error")
      [] e.route = "validate" -> Respond(e, 200, "invalid")

\* `await adapter.disconnect()` and the response after it (lines 172-183,
\* 225-239, 450-456)
DisconnectAndRespond(a, e) ==
    LET d == disconnect(a)
        body == CASE e.route = "transcribe" -> "transcription"
                  [] e.route = "synthesize" -> "audio"
                  [] e.route = "validate" -> "valid"
    IN [a |-> d,
        e |-> IF d.last.raised = "none" THEN Respond(e, 200, body) ELSE Catch(e)]

\* `await adapter.process(...)` is reached (lines 164, 169, 224): process()
\* throws or the handler awaits it.
StartProcess(a, e) ==
    LET p == process(a)
    IN [a |-> p,
        e |-> IF p.last.raised = "none" THEN [e EXCEPT !.pc = "process"]
                                           ELSE Catch(e)]

\* The handler after `await adapter.connect()` resumed, up to its next await
\* or its response.
AfterConnect(a, e) ==
    CASE e.route = "validate" -> DisconnectAndRespond(a, e)
      [] e.route = "synthesize" -> StartProcess(a, e)
      [] e.route = "transcribe" ->
            IF e.input = "url" THEN [a |-> a, e |-> [e EXCEPT !.pc = "download"]]
                               ELSE StartProcess(a, e)

\* A handler from its start to its first await or its response: the checks
\* of the body, routeRequest (which counts the request), adapter.connect().
Serve(e, route, provider, complete, input) ==
    LET req == [e EXCEPT !.route = route, !.input = input]
        counted == [req EXCEPT !.usage[provider] = @ + 1]
        a == connect(NewAdapter(provider))
    IN IF ~complete \/ (route = "transcribe" /\ input = "none")
       THEN [a |-> NoAdapter, e |-> Respond(req, 400, "bad_request")]
       ELSE IF ~Supports(provider, RouteType(route))
       THEN [a |-> NoAdapter, e |-> Catch(req)]
       ELSE IF a.connecting = "resolved"
       THEN AfterConnect(a, counted)
       ELSE [a |-> a, e |-> [counted EXCEPT !.pc = "connect"]]

\* ----------------------------------------------------------------- actions

World(c) == [call |-> calls[c], cb |-> circuitBreakers, st |-> errorStats, tr |-> trials]

Commit(c, w) ==
    /\ calls' = [calls EXCEPT ![c] = w.call]
    /\ circuitBreakers' = w.cb
    /\ errorStats' = w.st
    /\ trials' = w.tr

\* The lists of at most n providers.
RECURSIVE ListsUpTo(_)
ListsUpTo(n) ==
    IF n = 0 THEN {<<>>}
    ELSE ListsUpTo(n - 1)
         \cup {Append(l, p) : l \in {x \in ListsUpTo(n - 1) : Len(x) = n - 1}, p \in Providers}

Init ==
    /\ now = 0
    /\ \E opt \in ThresholdOptions : circuitBreakerThreshold = OrDefault(opt, DefaultThreshold)
    /\ circuitBreakerTimeout = OrDefault(0, DefaultBreakerTimeout)
    /\ circuitBreakers = [p \in Providers |-> InitialBreaker]
    /\ errorStats = [p \in Providers |-> InitialStats]
    /\ calls = [c \in Calls |-> IdleCall]
    /\ started = 0
    /\ trials = [p \in Providers |-> 0]
    /\ sessions = [s \in Sessions |-> NoSession]
    /\ retryDelay = OrDefault(0, DefaultRetryDelay)
    /\ backoff = NoBackoff
    /\ adapter = NoAdapter
    /\ endpoint = NoRequest

\* executeWithFallback(operation, {provider, fallbackProviders, retries})
\* is called.
Start(c) ==
    /\ calls[c].pc = "idle"
    /\ \A d \in Calls : d < c => calls[d].pc # "idle"
    /\ started < MaxCalls
    /\ \E provider \in Providers, fallbackProviders \in ListsUpTo(MaxFallbacks),
          retries \in 0..MaxRetriesArg :
          Commit(c, Begin([World(c) EXCEPT !.call.provider = provider,
                                           !.call.fallbackProviders = fallbackProviders,
                                           !.call.retries = retries], now))
    /\ started' = started + 1
    /\ UNCHANGED <<adapter, endpoint, retryDelay, backoff, sessions, now, circuitBreakerThreshold, circuitBreakerTimeout>>

\* The await of line 83 resumes: the primary attempt settled.
PrimarySettles(c) ==
    /\ calls[c].pc = "awaitPrimary"
    /\ \E s \in Settlements :
          Commit(c, IF s.ok THEN Succeeded(World(c), calls[c].provider)
                    ELSE PrimaryFailed(World(c), s.error, now,
                                       circuitBreakerThreshold, circuitBreakerTimeout))
    /\ UNCHANGED <<adapter, endpoint, retryDelay, backoff, sessions, now, circuitBreakerThreshold, circuitBreakerTimeout, started>>

\* The await of line 98 resumes: the retry delay is over.
DelayEnds(c) ==
    /\ calls[c].pc = "delay"
    /\ Commit(c, NextPrimaryAttempt(World(c), now))
    /\ UNCHANGED <<adapter, endpoint, retryDelay, backoff, sessions, now, circuitBreakerThreshold, circuitBreakerTimeout, started>>

\* The await of line 118 resumes: the fallback attempt settled.
FallbackSettles(c) ==
    /\ calls[c].pc = "awaitFallback"
    /\ \E s \in Settlements :
          Commit(c, IF s.ok
                    THEN Succeeded(World(c), calls[c].fallbackProviders[calls[c].fb])
                    ELSE FallbackFailed(World(c), s.error, now,
                                        circuitBreakerThreshold, circuitBreakerTimeout))
    /\ UNCHANGED <<adapter, endpoint, retryDelay, backoff, sessions, now, circuitBreakerThreshold, circuitBreakerTimeout, started>>

\* The caller has the call's result or error; the activation is gone.
Finish(c) ==
    /\ calls[c].pc = "done"
    /\ calls' = [calls EXCEPT ![c] = IdleCall]
    /\ UNCHANGED <<adapter, endpoint, retryDelay, backoff, sessions, now, circuitBreakerThreshold, circuitBreakerTimeout,
                   circuitBreakers, errorStats, started, trials>>

\* resetCircuitBreaker closing the breaker but keeping its failure count.
ResetCircuitBreakerKeepsCount(p) ==
    /\ circuitBreakers[p] # InitialBreaker
    /\ circuitBreakers' = [circuitBreakers EXCEPT ![p].state = "CLOSED",
                                                  ![p].nextAttemptTime = Null]
    /\ trials' = TrialsIn(trials, circuitBreakers')
    /\ UNCHANGED <<adapter, endpoint, retryDelay, backoff, sessions, now, circuitBreakerThreshold, circuitBreakerTimeout,
                   errorStats, calls, started>>

\* resetCircuitBreaker(provider). Nothing in the repository calls it: it is an
\* operator's action and no disjunct of Next.
ResetCircuitBreaker(p) ==
    /\ circuitBreakers[p] # InitialBreaker
    /\ circuitBreakers' = [circuitBreakers EXCEPT ![p] = InitialBreaker]
    /\ trials' = TrialsIn(trials, circuitBreakers')
    /\ UNCHANGED <<adapter, endpoint, retryDelay, backoff, sessions, now, circuitBreakerThreshold, circuitBreakerTimeout,
                   errorStats, calls, started>>

\* Time passes.
Tick ==
    /\ now < MaxTicks * TickMs
    /\ now' = now + TickMs
    /\ UNCHANGED <<adapter, endpoint, retryDelay, backoff, sessions, circuitBreakerThreshold, circuitBreakerTimeout, circuitBreakers,
                   errorStats, calls, started, trials>>

Next ==
    \/ \E c \in Calls : Start(c)
    \/ \E c \in Calls : PrimarySettles(c)
    \/ \E c \in Calls : DelayEnds(c)
    \/ \E c \in Calls : FallbackSettles(c)
    \/ \E c \in Calls : Finish(c)
    \/ Tick

Spec == Init /\ [][Next]_vars

\* One call at a time: a call starts only when no other is in progress.
StartAlone(c) ==
    /\ \A d \in Calls : calls[d].pc = "idle"
    /\ Start(c)

NextSeq ==
    \/ \E c \in Calls : StartAlone(c)
    \/ \E c \in Calls : PrimarySettles(c)
    \/ \E c \in Calls : DelayEnds(c)
    \/ \E c \in Calls : FallbackSettles(c)
    \/ \E c \in Calls : Finish(c)
    \/ Tick

SpecSeq == Init /\ [][NextSeq]_vars

\* The handler with an operator at hand: calls run one at a time and any
\* breaker may be reset by hand at any moment, also while a call is waiting.
NextOperated ==
    \/ \E c \in Calls : StartAlone(c)
    \/ \E c \in Calls : PrimarySettles(c)
    \/ \E c \in Calls : DelayEnds(c)
    \/ \E c \in Calls : FallbackSettles(c)
    \/ \E c \in Calls : Finish(c)
    \/ \E p \in Providers : ResetCircuitBreaker(p)
    \/ Tick

SpecOperated == Init /\ [][NextOperated]_vars

\* executeWithFallback is called with few retries and a longer fallback list.
StartFallbacks(c) ==
    /\ calls[c].pc = "idle"
    /\ \A d \in Calls : d < c => calls[d].pc # "idle"
    /\ started < MaxCalls
    /\ \E provider \in Providers, fallbackProviders \in ListsUpTo(MaxFallbackList),
          retries \in 0..MaxRetriesShort :
          Commit(c, Begin([World(c) EXCEPT !.call.provider = provider,
                                           !.call.fallbackProviders = fallbackProviders,
                                           !.call.retries = retries], now))
    /\ started' = started + 1
    /\ UNCHANGED <<adapter, endpoint, retryDelay, backoff, sessions, now, circuitBreakerThreshold, circuitBreakerTimeout>>

NextFallbacks ==
    \/ \E c \in Calls : StartFallbacks(c)
    \/ \E c \in Calls : PrimarySettles(c)
    \/ \E c \in Calls : DelayEnds(c)
    \/ \E c \in Calls : FallbackSettles(c)
    \/ \E c \in Calls : Finish(c)
    \/ Tick

SpecFallbacks == Init /\ [][NextFallbacks]_vars

\* A provider id that initializeCircuitBreakers does not register.
Unregistered == "custom-stt"

\* executeWithFallback is called, one call at a time, for a registered
\* provider or for one that is not registered.
StartAnyProvider(c) ==
    /\ \A d \in Calls : calls[d].pc = "idle"
    /\ calls[c].pc = "idle"
    /\ \A d \in Calls : d < c => calls[d].pc # "idle"
    /\ started < MaxCalls
    /\ \E provider \in Providers \cup {Unregistered},
          fallbackProviders \in ListsUpTo(MaxFallbacks), retries \in 0..MaxRetriesArg :
          Commit(c, Begin([World(c) EXCEPT !.call.provider = provider,
                                           !.call.fallbackProviders = fallbackProviders,
                                           !.call.retries = retries], now))
    /\ started' = started + 1
    /\ UNCHANGED <<adapter, endpoint, retryDelay, backoff, sessions, now, circuitBreakerThreshold, circuitBreakerTimeout>>

NextAnyProvider ==
    \/ \E c \in Calls : StartAnyProvider(c)
    \/ \E c \in Calls : PrimarySettles(c)
    \/ \E c \in Calls : DelayEnds(c)
    \/ \E c \in Calls : FallbackSettles(c)
    \/ \E c \in Calls : Finish(c)
    \/ Tick

SpecAnyProvider == Init /\ [][NextAnyProvider]_vars

\* The substrings createVoiceError looks for in error.message.
Substrings ==
    {"timeout", "TIMEOUT", "401", "unauthorized", "403", "forbidden", "404",
     "not found", "429", "rate limit", "500", "502", "503", "ENOTFOUND",
     "ECONNREFUSED", "JSON", "parse"}

\* new VoiceError(message, type, metadata): isRetryable is
\* metadata.isRetryable !== false.
NewVoiceError(type, metadataIsRetryable) ==
    [voice |-> TRUE, type |-> type, isRetryable |-> metadataIsRetryable # "false",
     provider |-> "none", attempt |-> Null, message |-> {}]

\* What an operation rejects with: an Error whose message holds none, one or
\* two of the substrings, or a VoiceError the operation made itself, of a type
\* of its choosing, with or without metadata.isRetryable.
Rejections ==
    {RawError(tokens) : tokens \in {t \in SUBSET Substrings : Cardinality(t) <= MaxSubstrings}}
    \cup {NewVoiceError(type, r) : type \in {"AUTHENTICATION_ERROR", "QUOTA_EXCEEDED"},
                                    r \in {"undefined", "false"}}

\* executeWithFallback is called, one call at a time, without fallbacks.
StartClassify(c) ==
    /\ \A d \in Calls : calls[d].pc = "idle"
    /\ calls[c].pc = "idle"
    /\ \A d \in Calls : d < c => calls[d].pc # "idle"
    /\ started < MaxCalls
    /\ \E provider \in Providers, retries \in 0..MaxRetriesShort :
          Commit(c, Begin([World(c) EXCEPT !.call.provider = provider,
                                           !.call.fallbackProviders = <<>>,
                                           !.call.retries = retries], now))
    /\ started' = started + 1
    /\ UNCHANGED <<adapter, endpoint, retryDelay, backoff, sessions, now, circuitBreakerThreshold, circuitBreakerTimeout>>

\* The await of line 83 resumes: the operation rejected.
PrimaryRejects(c) ==
    /\ calls[c].pc = "awaitPrimary"
    /\ \E error \in Rejections :
          Commit(c, PrimaryFailed(World(c), error, now,
                                  circuitBreakerThreshold, circuitBreakerTimeout))
    /\ UNCHANGED <<adapter, endpoint, retryDelay, backoff, sessions, now, circuitBreakerThreshold, circuitBreakerTimeout, started>>

NextClassify ==
    \/ \E c \in Calls : StartClassify(c)
    \/ \E c \in Calls : PrimaryRejects(c)
    \/ \E c \in Calls : DelayEnds(c)
    \/ \E c \in Calls : Finish(c)

SpecClassify == Init /\ [][NextClassify]_vars

\* line 98: calculateRetryDelay(attempt) is called, for the delay before the
\* attempt that follows.
CalculateRetryDelay ==
    /\ \E attempt \in 0..MaxAttempt, jitter \in Jitters :
          backoff' = [attempt |-> attempt, jitter |-> jitter,
                      delay |-> calculateRetryDelay(retryDelay, attempt, jitter)]
    /\ UNCHANGED <<adapter, endpoint, retryDelay, sessions, now, circuitBreakerThreshold,
                   circuitBreakerTimeout, circuitBreakers, errorStats, calls,
                   started, trials>>

\* A handler constructed with any of the retryDelay options.
InitDelay ==
    /\ now = 0
    /\ circuitBreakerThreshold = DefaultThreshold
    /\ circuitBreakerTimeout = OrDefault(0, DefaultBreakerTimeout)
    /\ circuitBreakers = [p \in Providers |-> InitialBreaker]
    /\ errorStats = [p \in Providers |-> InitialStats]
    /\ calls = [c \in Calls |-> IdleCall]
    /\ started = 0
    /\ trials = [p \in Providers |-> 0]
    /\ sessions = [s \in Sessions |-> NoSession]
    /\ \E opt \in RetryDelayOptions : retryDelay = OrDefault(opt, DefaultRetryDelay)
    /\ backoff = NoBackoff
    /\ adapter = NoAdapter
    /\ endpoint = NoRequest

NextDelay == CalculateRetryDelay

SpecDelay == InitDelay /\ [][NextDelay]_vars

\* executeWithTimeout's timer fires on a primary attempt (lines 150-152): the
\* await of line 83 resumes with TIMEOUT, whether or not the operation ever
\* completes.
PrimaryTimesOut(c) ==
    /\ calls[c].pc = "awaitPrimary"
    /\ Commit(c, PrimaryFailed(World(c), TimeoutError, now,
                               circuitBreakerThreshold, circuitBreakerTimeout))
    /\ UNCHANGED <<adapter, endpoint, retryDelay, backoff, sessions, now, circuitBreakerThreshold,
                   circuitBreakerTimeout, started>>

\* The timer fires on a fallback attempt: the await of line 118 resumes with
\* TIMEOUT.
FallbackTimesOut(c) ==
    /\ calls[c].pc = "awaitFallback"
    /\ Commit(c, FallbackFailed(World(c), TimeoutError, now,
                                circuitBreakerThreshold, circuitBreakerTimeout))
    /\ UNCHANGED <<adapter, endpoint, retryDelay, backoff, sessions, now, circuitBreakerThreshold,
                   circuitBreakerTimeout, started>>

\* A timer of the event loop fires: that of a pending executeWithTimeout, which
\* rejects it with TIMEOUT, or the setTimeout of delay(), which resolves it.
TimerFires ==
    \E c \in Calls : PrimaryTimesOut(c) \/ FallbackTimesOut(c) \/ DelayEnds(c)

\* The event loop does not leave a timer that is due unserved for ever. With
\* one call at a time at most one timer is set.
TimersFire == WF_vars(TimerFires)

\* executeWithFallback is called, one call at a time, with few retries.
StartShort(c) ==
    /\ \A d \in Calls : calls[d].pc = "idle"
    /\ calls[c].pc = "idle"
    /\ \A d \in Calls : d < c => calls[d].pc # "idle"
    /\ started < MaxCalls
    /\ \E provider \in Providers, fallbackProviders \in ListsUpTo(MaxFallbacks),
          retries \in 0..MaxRetriesShort :
          Commit(c, Begin([World(c) EXCEPT !.call.provider = provider,
                                           !.call.fallbackProviders = fallbackProviders,
                                           !.call.retries = retries], now))
    /\ started' = started + 1
    /\ UNCHANGED <<adapter, endpoint, retryDelay, backoff, sessions, now, circuitBreakerThreshold,
                   circuitBreakerTimeout>>

NextTimers ==
    \/ \E c \in Calls : StartShort(c)
    \/ \E c \in Calls : PrimarySettles(c)
    \/ \E c \in Calls : DelayEnds(c)
    \/ \E c \in Calls : FallbackSettles(c)
    \/ \E c \in Calls : Finish(c)

\* One call at a time, on an event loop whose timers fire.
SpecTimers == Init /\ [][NextTimers]_vars /\ TimersFire

\* ------------------------------------------------------- breaker recovery

\* new VoiceErrorHandler({circuitBreakerThreshold: 2})
InitRecovery == Init /\ circuitBreakerThreshold = 2

\* executeWithFallback is called with provider as its primary, while no other
\* call is in progress. Calls are not counted: they are made as long as the
\* provider has recorded fewer than MaxRequests requests.
StartNaming(c, provider) ==
    /\ \A d \in Calls : calls[d].pc = "idle"
    /\ \A d \in Calls : d < c => calls[d].pc # "idle"
    /\ errorStats[provider].totalRequests < MaxRequests
    /\ \E fallbackProviders \in ListsUpTo(MaxFallbacks), retries \in 0..MaxRetriesShort :
          Commit(c, Begin([World(c) EXCEPT !.call.provider = provider,
                                           !.call.fallbackProviders = fallbackProviders,
                                           !.call.retries = retries], now))
    /\ UNCHANGED <<adapter, endpoint, retryDelay, backoff, sessions, now, circuitBreakerThreshold,
                   circuitBreakerTimeout, started>>

\* The outcomes of an operation run against provider when the provider has
\* recovered by the time its breaker is HALF_OPEN: a trial succeeds. Before
\* that the operation succeeds or runs into the timeout.
SettlementsOn(provider) ==
    IF BreakerStateOf(circuitBreakers, provider) = "HALF_OPEN"
    THEN {s \in Settlements : s.ok}
    ELSE {s \in Settlements : s.ok \/ s.error = TimeoutError}

\* The await of line 83 resumes, the provider having recovered.
PrimarySettlesRecovered(c) ==
    /\ calls[c].pc = "awaitPrimary"
    /\ \E s \in SettlementsOn(calls[c].provider) :
          Commit(c, IF s.ok THEN Succeeded(World(c), calls[c].provider)
                    ELSE PrimaryFailed(World(c), s.error, now,
                                       circuitBreakerThreshold, circuitBreakerTimeout))
    /\ UNCHANGED <<adapter, endpoint, retryDelay, backoff, sessions, now, circuitBreakerThreshold,
                   circuitBreakerTimeout, started>>

\* The await of line 118 resumes, the provider having recovered.
FallbackSettlesRecovered(c) ==
    /\ calls[c].pc = "awaitFallback"
    /\ \E s \in SettlementsOn(calls[c].fallbackProviders[calls[c].fb]) :
          Commit(c, IF s.ok
                    THEN Succeeded(World(c), calls[c].fallbackProviders[calls[c].fb])
                    ELSE FallbackFailed(World(c), s.error, now,
                                        circuitBreakerThreshold, circuitBreakerTimeout))
    /\ UNCHANGED <<adapter, endpoint, retryDelay, backoff, sessions, now, circuitBreakerThreshold,
                   circuitBreakerTimeout, started>>

\* The call in progress goes on: its await resumes or its caller takes the
\* result.
CallGoesOn ==
    \E c \in Calls : \/ PrimarySettlesRecovered(c)
                     \/ FallbackSettlesRecovered(c)
                     \/ DelayEnds(c)
                     \/ Finish(c)

NextRecovery ==
    \/ \E c \in Calls, p \in Providers : StartNaming(c, p)
    \/ \E c \in Calls : PrimarySettlesRecovered(c)
    \/ \E c \in Calls : FallbackSettlesRecovered(c)
    \/ \E c \in Calls : DelayEnds(c)
    \/ \E c \in Calls : Finish(c)
    \/ Tick

\* Every attempt settles (by its timeout at the latest) and every delay ends;
\* calls naming each provider keep being made.
RecoveryFairness ==
    /\ WF_vars(CallGoesOn)
    /\ \A p \in Providers : SF_vars(\E c \in Calls : StartNaming(c, p))

SpecRecovery == InitRecovery /\ [][NextRecovery]_vars /\ RecoveryFairness

\* ------------------------------------------------ realtime session: actions

Event(type) == [type |-> type, data |-> <<>>]

\* The messages of the client and of the provider.
ClientMessages ==
    {[type |-> "audio_input", data |-> d] : d \in SampleArrays}
    \cup {Event("commit_audio"), Event("not JSON")}

OtherProviderMessages ==
    {Event("session.created"),
     Event("input_audio_buffer.speech_started"),
     Event("input_audio_buffer.speech_stopped"),
     Event("conversation.item.input_audio_transcription.completed"),
     Event("response.audio.done"), Event("response.done"), Event("error")}

\* The delta the provider sends after k others.
DeltaMessage(k) ==
    [type |-> "response.audio.delta",
     data |-> ResponseAudio[(k % Len(ResponseAudio)) + 1]]

ClientMessageTypes == {m.type : m \in ClientMessages}

\* Handled with one pending-audio buffer for all the sessions of the server.
HandledSharedBuffer(s, x, e) ==
    /\ sessions' = [t \in DOMAIN sessions |->
          IF t = s
          THEN [x EXCEPT !.event = e,
                    !.deltas = IF e.type = "response.audio.delta" THEN @ + 1 ELSE @,
                    !.others = IF e \in OtherProviderMessages THEN @ + 1 ELSE @,
                    !.messages = IF e.type \in ClientMessageTypes THEN @ + 1 ELSE @]
          ELSE [sessions[t] EXCEPT !.audioBuffer = x.audioBuffer]]
    /\ UNCHANGED <<handlerVars, adapter, endpoint>>

\* The listener for event e has run in session s, which is then x.
Handled(s, x, e) ==
    /\ sessions' = [sessions EXCEPT ![s] =
          [x EXCEPT !.event = e,
                    !.deltas = IF e.type = "response.audio.delta" THEN @ + 1 ELSE @,
                    !.others = IF e \in OtherProviderMessages THEN @ + 1 ELSE @,
                    !.messages = IF e.type \in ClientMessageTypes THEN @ + 1 ELSE @]]
    /\ UNCHANGED <<handlerVars, adapter, endpoint>>

\* wss 'connection': a client connects and its session is constructed.
Connection(s) ==
    /\ sessions[s] = NoSession
    /\ \E hasKey \in BOOLEAN : Handled(s, construct(hasKey), Event("connection"))

\* clientWs 'message'
ClientMessage(s) ==
    /\ sessions[s].clientWs = "OPEN"
    /\ sessions[s].messages < MaxClientMessages
    /\ \E message \in ClientMessages :
          Handled(s, onClientMessage(sessions[s], message), message)

\* clientWs 'close'
ClientClose(s) ==
    /\ sessions[s].clientWs \in {"OPEN", "CLOSING"}
    /\ Handled(s, cleanup([sessions[s] EXCEPT !.clientWs = "CLOSED"]),
               Event("client close"))

\* clientWs 'error': the socket is closing when its listeners run.
ClientError(s) ==
    /\ sessions[s].clientWs = "OPEN"
    /\ Handled(s, cleanup([sessions[s] EXCEPT !.clientWs = "CLOSING"]),
               Event("client error"))

\* openaiWs 'open'
OpenAIOpen(s) ==
    /\ sessions[s].openaiWs = "CONNECTING"
    /\ Handled(s, onOpenAIOpen([sessions[s] EXCEPT !.openaiWs = "OPEN"]),
               Event("open"))

\* openaiWs 'message': a socket that has opened delivers messages until it is
\* closed. What handleOpenAIMessage throws is caught and logged by the
\* listener.
OpenAIMessage(s) ==
    /\ sessions[s].openaiWs \in {"OPEN", "CLOSING"}
    /\ sessions[s].isConnectedToOpenAI
    /\ \/ /\ sessions[s].deltas < MaxDeltas
          /\ LET message == DeltaMessage(sessions[s].deltas)
             IN Handled(s, handleOpenAIMessage(sessions[s], message, NoData), message)
       \/ /\ sessions[s].others < MaxProviderEvents
          /\ \E message \in OtherProviderMessages :
                \E audioArray \in AudioArrays(join(sessions[s].audioBuffer)) :
                   Handled(s, handleOpenAIMessage(sessions[s], message, audioArray),
                           message)

\* openaiWs 'close'
OpenAIClose(s) ==
    /\ sessions[s].openaiWs \in {"OPEN", "CLOSING"}
    /\ Handled(s, onOpenAIClose([sessions[s] EXCEPT !.openaiWs = "CLOSED"]),
               Event("close"))

\* openaiWs 'error': the socket is closing when its listeners run.
OpenAIError(s) ==
    /\ sessions[s].openaiWs \in {"CONNECTING", "OPEN"}
    /\ Handled(s, onOpenAIError([sessions[s] EXCEPT !.openaiWs = "CLOSING"]),
               Event("socket error"))

NextSession ==
    \/ \E s \in Sessions : Connection(s)
    \/ \E s \in Sessions : ClientMessage(s)
    \/ \E s \in Sessions : ClientClose(s)
    \/ \E s \in Sessions : ClientError(s)
    \/ \E s \in Sessions : OpenAIOpen(s)
    \/ \E s \in Sessions : OpenAIMessage(s)
    \/ \E s \in Sessions : OpenAIClose(s)
    \/ \E s \in Sessions : OpenAIError(s)

\* The sessions of a server whose error handler has the default options.
InitSession == Init /\ circuitBreakerThreshold = DefaultThreshold

SpecSession == InitSession /\ [][NextSession]_vars

\* Sessions side by side: every connection gets a WebSocketSessionHandler of
\* its own, and the listeners of all of them run one at a time, in any order.
PairSessions == 1..NPair

\* The messages the sessions have handled in all.
RECURSIVE PairEvents(_)
PairEvents(n) ==
    IF n = 0 THEN 0
    ELSE sessions[n].deltas + sessions[n].others + sessions[n].messages
         + PairEvents(n - 1)

MoreEvents == PairEvents(NPair) < MaxPairEvents

InitPair ==
    /\ now = 0
    /\ circuitBreakerThreshold = DefaultThreshold
    /\ circuitBreakerTimeout = OrDefault(0, DefaultBreakerTimeout)
    /\ circuitBreakers = [p \in Providers |-> InitialBreaker]
    /\ errorStats = [p \in Providers |-> InitialStats]
    /\ calls = [c \in Calls |-> IdleCall]
    /\ started = 0
    /\ trials = [p \in Providers |-> 0]
    /\ sessions = [s \in PairSessions |-> NoSession]
    /\ retryDelay = OrDefault(0, DefaultRetryDelay)
    /\ backoff = NoBackoff
    /\ adapter = NoAdapter
    /\ endpoint = NoRequest

NextPair ==
    \/ \E s \in PairSessions : Connection(s)
    \/ \E s \in PairSessions : MoreEvents /\ ClientMessage(s)
    \/ \E s \in PairSessions : ClientClose(s)
    \/ \E s \in PairSessions : ClientError(s)
    \/ \E s \in PairSessions : OpenAIOpen(s)
    \/ \E s \in PairSessions : MoreEvents /\ OpenAIMessage(s)
    \/ \E s \in PairSessions : OpenAIClose(s)
    \/ \E s \in PairSessions : OpenAIError(s)

SpecPair == InitPair /\ [][NextPair]_vars

\* ------------------------------------------------------ voice router: actions

\* The adapter's socket opens.
SocketOpens ==
    /\ adapter.websocket = "CONNECTING"
    /\ adapter' = onOpen(adapter)
    /\ UNCHANGED <<endpoint, handlerVars, sessions>>

\* The adapter's socket fails while connecting, or after it was closed before
\* the connection was established.
SocketFails ==
    /\ adapter.websocket \in {"CONNECTING", "CLOSING"}
    /\ adapter.connecting = "pending"
    /\ adapter' = onError(adapter)
    /\ UNCHANGED <<endpoint, handlerVars, sessions>>

\* The provider closes the open socket, with an error or without.
ProviderCloses ==
    /\ adapter.websocket = "OPEN"
    /\ \E a \in {onError(adapter), onClose(adapter)} : adapter' = a
    /\ UNCHANGED <<endpoint, handlerVars, sessions>>

\* The closing handshake of a socket the adapter closed is over.
SocketClosed ==
    /\ adapter.websocket = "CLOSING"
    /\ adapter.connecting # "pending"
    /\ adapter' = onClose(adapter)
    /\ UNCHANGED <<endpoint, handlerVars, sessions>>

\* routeRequest returns an adapter to a caller that uses it as it likes.
RouteRequest ==
    /\ adapter = NoAdapter
    /\ \E provider \in AdapterClasses : adapter' = NewAdapter(provider)
    /\ UNCHANGED <<endpoint, handlerVars, sessions>>

\* The caller calls connect(), once.
Connect ==
    /\ adapter.class # "none"
    /\ ~adapter.connectCalled
    /\ adapter' = connect(adapter)
    /\ UNCHANGED <<endpoint, handlerVars, sessions>>

\* The caller calls disconnect().
Disconnect ==
    /\ adapter.class # "none"
    /\ adapter.uses < MaxUses
    /\ adapter' = disconnect(adapter)
    /\ UNCHANGED <<endpoint, handlerVars, sessions>>

\* The caller calls send() or sendAudio().
Send ==
    /\ adapter.class \in Streaming
    /\ adapter.uses < MaxUses
    /\ \E wsThrows \in BOOLEAN : adapter' = send(adapter, wsThrows)
    /\ UNCHANGED <<endpoint, handlerVars, sessions>>

\* The caller calls process() and awaits it.
Process ==
    /\ adapter.class # "none"
    /\ adapter.uses < MaxUses
    /\ \E ok \in BOOLEAN :
          adapter' = IF process(adapter).last.raised = "none"
                     THEN processed(process(adapter), ok)
                     ELSE process(adapter)
    /\ UNCHANGED <<endpoint, handlerVars, sessions>>

NextAdapter ==
    \/ RouteRequest
    \/ Connect
    \/ Disconnect
    \/ Send
    \/ Process
    \/ SocketOpens
    \/ SocketFails
    \/ ProviderCloses
    \/ SocketClosed

\* One adapter in the hands of an arbitrary caller.
\* new VoiceRouter(): no adapter handed out, no request served.
InitRouter == Init /\ circuitBreakerThreshold = DefaultThreshold

SpecAdapter == InitRouter /\ [][NextAdapter]_vars

\* ---------------------------------------------------- voice router: endpoints

\* A request arrives at /v1/voice/transcribe, /synthesize or /validate.
Request ==
    /\ endpoint.pc = "idle"
    /\ endpoint.usage["openai-realtime"] + endpoint.usage["deepgram"]
          + endpoint.usage["whisper"] + endpoint.usage["elevenlabs"] < MaxRouted
    /\ \E route \in Routes, provider \in AdapterClasses, complete \in BOOLEAN,
          input \in {"none", "file", "url"} :
          /\ (route # "transcribe") => input = "none"
          /\ LET w == Serve(endpoint, route, provider, complete, input)
             IN adapter' = w.a /\ endpoint' = w.e
    /\ UNCHANGED <<handlerVars, sessions>>

\* The socket opens: connect() resolves and the handler goes on.
ConnectResolves ==
    /\ endpoint.pc = "connect"
    /\ adapter.websocket = "CONNECTING"
    /\ LET w == AfterConnect(onOpen(adapter), endpoint)
       IN adapter' = w.a /\ endpoint' = w.e
    /\ UNCHANGED <<handlerVars, sessions>>

\* The socket fails: connect() rejects and the handler's catch block runs.
ConnectRejects ==
    /\ endpoint.pc = "connect"
    /\ adapter.websocket = "CONNECTING"
    /\ adapter' = onError(adapter)
    /\ endpoint' = Catch(endpoint)
    /\ UNCHANGED <<handlerVars, sessions>>

\* fetch(audio_url) of transcribe settles (lines 167-169).
DownloadSettles ==
    /\ endpoint.pc = "download"
    /\ \E ok \in BOOLEAN :
          LET w == IF ok THEN StartProcess(adapter, endpoint)
                   ELSE [a |-> adapter, e |-> Catch(endpoint)]
          IN adapter' = w.a /\ endpoint' = w.e
    /\ UNCHANGED <<handlerVars, sessions>>

\* adapter.process() settles.
ProcessSettles ==
    /\ endpoint.pc = "process"
    /\ \E ok \in BOOLEAN :
          LET w == IF ok THEN DisconnectAndRespond(processed(adapter, TRUE), endpoint)
                   ELSE [a |-> processed(adapter, FALSE), e |-> Catch(endpoint)]
          IN adapter' = w.a /\ endpoint' = w.e
    /\ UNCHANGED <<handlerVars, sessions>>

\* The response is out; the handler has returned.
Served ==
    /\ endpoint.pc = "responded"
    /\ endpoint' = [NoRequest EXCEPT !.usage = endpoint.usage]
    /\ UNCHANGED <<adapter, handlerVars, sessions>>

NextEndpoints ==
    \/ Request
    \/ ConnectResolves
    \/ ConnectRejects
    \/ DownloadSettles
    \/ ProcessSettles
    \/ Served
    \/ ProviderCloses
    \/ SocketClosed

\* The HTTP endpoints, one request at a time.
SpecEndpoints == InitRouter /\ [][NextEndpoints]_vars

\* ------------------------------------------------------------------ claims

\* The invocations call c made in its retry loop.
PrimaryInvocations(c) ==
    {i \in DOMAIN calls[c].log : calls[c].log[i].stage = "primary"}

\* The invocations call c made for the i-th entry of its fallbackProviders.
FallbackInvocations(c, i) ==
    {j \in DOMAIN calls[c].log :
        calls[c].log[j].stage = "fallback" /\ calls[c].log[j].index = i}

\* Call c takes a step in which a failure is recorded against provider p.
FailureRecorded(p) == errorStats'[p].totalErrors = errorStats[p].totalErrors + 1

\* A call takes a step in which its attempt against provider p succeeds.
SuccessRecorded(p) ==
    \E c \in Calls :
        /\ calls[c].pc \in {"awaitPrimary", "awaitFallback"}
        /\ calls'[c].outcome = "returned"
        /\ calls[c].log[Len(calls[c].log)].provider = p

\* Provider p's breaker is OPEN and its nextAttemptTime is still ahead.
Cooling(p) ==
    circuitBreakers[p].state = "OPEN" /\ now < circuitBreakers[p].nextAttemptTime

\* C1: in one call the operation is invoked at most retries + 1 times in the
\* retry loop on the primary, at most once for each entry of
\* fallbackProviders, and so at most retries + 1 + |fallbackProviders| times.
C1_RetryBound ==
    \A c \in Calls :
        /\ Cardinality(PrimaryInvocations(c)) <= calls[c].retries + 1
        /\ \A i \in DOMAIN calls[c].fallbackProviders :
              Cardinality(FallbackInvocations(c, i)) <= 1
        /\ Len(calls[c].log) <= calls[c].retries + 1 + Len(calls[c].fallbackProviders)

\* A call that used its whole budget: every retry and its fallback.
C1_Witness ==
    \E c \in Calls :
        /\ calls[c].retries >= 1
        /\ Len(calls[c].fallbackProviders) >= 1
        /\ Len(calls[c].log) = calls[c].retries + 1 + Len(calls[c].fallbackProviders)

\* C2: a failure recorded against a CLOSED breaker adds exactly one to its
\* count; below the threshold the breaker stays CLOSED with its expiry
\* untouched, and at the threshold it becomes OPEN with nextAttemptTime =
\* now + cooldown.
C2_ClosedFailureStep ==
    [][\A p \in Providers :
          (FailureRecorded(p) /\ circuitBreakers[p].state = "CLOSED") =>
              /\ circuitBreakers'[p].failures = circuitBreakers[p].failures + 1
              /\ circuitBreakers'[p].failures < circuitBreakerThreshold =>
                    /\ circuitBreakers'[p].state = "CLOSED"
                    /\ circuitBreakers'[p].nextAttemptTime = circuitBreakers[p].nextAttemptTime
              /\ circuitBreakers'[p].failures >= circuitBreakerThreshold =>
                    /\ circuitBreakers'[p].state = "OPEN"
                    /\ circuitBreakers'[p].nextAttemptTime = now + circuitBreakerTimeout]_vars

\* A handler built with the default threshold whose breaker opened on the
\* fifth failure in a row.
C2_Witness ==
    \E p \in Providers :
        /\ circuitBreakerThreshold = DefaultThreshold
        /\ circuitBreakers[p].state = "OPEN"
        /\ circuitBreakers[p].failures = DefaultThreshold
        /\ errorStats[p].totalErrors = DefaultThreshold
        /\ circuitBreakers[p].nextAttemptTime
              = circuitBreakers[p].lastFailureTime + DefaultBreakerTimeout

\* C3: no invocation is started against a provider whose breaker is, at that
\* moment, OPEN with its cooldown expiry not reached.
C3_NoAttemptWhileOpen ==
    \A c \in Calls : \A i \in DOMAIN calls[c].log : ~calls[c].log[i].cooling

\* One call was refused its cooling primary while another call has an
\* invocation in flight.
C3_Witness ==
    \E c, d \in Calls :
        /\ calls[c].error.type = "PROVIDER_UNAVAILABLE"
        /\ Cooling(calls[c].provider)
        /\ calls[d].pc \in {"awaitPrimary", "awaitFallback"}

\* C4: while a breaker is HALF_OPEN at most one attempt against its provider
\* has been started since it became HALF_OPEN.
C4_OneTrial ==
    \A p \in Providers : circuitBreakers[p].state = "HALF_OPEN" => trials[p] <= 1

\* C5: an attempt that settles while the breaker is HALF_OPEN closes it with
\* count 0 if it succeeded, and re-opens it with nextAttemptTime = now +
\* cooldown if it failed.
C5_HalfOpenOutcome ==
    [][\A p \in Providers :
          circuitBreakers[p].state = "HALF_OPEN" =>
              /\ SuccessRecorded(p) =>
                    /\ circuitBreakers'[p].state = "CLOSED"
                    /\ circuitBreakers'[p].failures = 0
              /\ FailureRecorded(p) =>
                    /\ circuitBreakers'[p].state = "OPEN"
                    /\ circuitBreakers'[p].nextAttemptTime = now + circuitBreakerTimeout]_vars

\* One trial succeeded and left its breaker CLOSED with count 0; another
\* provider's trial failed and left its breaker OPEN with a new expiry.
C5_Witness ==
    \E c, d \in Calls :
        /\ calls[c].outcome = "returned"
        /\ calls[c].log[calls[c].result].during = "HALF_OPEN"
        /\ circuitBreakers[calls[c].log[calls[c].result].provider].state = "CLOSED"
        /\ circuitBreakers[calls[c].log[calls[c].result].provider].failures = 0
        /\ calls[d].log # <<>>
        /\ LET last == calls[d].log[Len(calls[d].log)]
           IN /\ last.during = "HALF_OPEN"
              /\ last.outcome = "failed"
              /\ circuitBreakers[last.provider].state = "OPEN"
              /\ circuitBreakers[last.provider].nextAttemptTime = now + circuitBreakerTimeout

\* Call c starts in this step, with primary p.
Starts(c, p) ==
    calls[c].pc = "idle" /\ calls'[c].pc # "idle" /\ calls'[c].provider = p

\* Some call starts an invocation against provider p in this step.
Invoked(p) ==
    \E c \in Calls :
        /\ Len(calls'[c].log) > Len(calls[c].log)
        /\ calls'[c].log[Len(calls'[c].log)].provider = p

\* C6: a breaker becomes HALF_OPEN only from OPEN, at or after its
\* nextAttemptTime, in a step of a call that names its provider; and while a
\* breaker is OPEN before its nextAttemptTime the availability checks of a
\* step let no invocation through and leave its state, count and expiry as
\* they were (they change only by the outcome of an attempt already in
\* flight), and a call that starts on it as primary is told unavailable.
C6_HalfOpenEntry ==
    [][\A p \in Providers :
          /\ (circuitBreakers[p].state # "HALF_OPEN" /\ circuitBreakers'[p].state = "HALF_OPEN") =>
                /\ circuitBreakers[p].state = "OPEN"
                /\ now >= circuitBreakers[p].nextAttemptTime
                /\ \E c \in Calls :
                      /\ calls'[c] # calls[c]
                      /\ \/ calls'[c].provider = p
                         \/ \E i \in DOMAIN calls'[c].fallbackProviders :
                               calls'[c].fallbackProviders[i] = p
          /\ Cooling(p) =>
                /\ ~Invoked(p)
                /\ circuitBreakers'[p].state = "OPEN"
                /\ circuitBreakers'[p].nextAttemptTime = circuitBreakers[p].nextAttemptTime
                /\ (~FailureRecorded(p) /\ ~SuccessRecorded(p)) =>
                      circuitBreakers'[p] = circuitBreakers[p]
                /\ \A c \in Calls :
                      Starts(c, p) =>
                          /\ calls'[c].error.type = "PROVIDER_UNAVAILABLE"
                          /\ calls'[c].log = <<>>
                          /\ circuitBreakers'[p] = circuitBreakers[p]]_vars

\* A breaker has become HALF_OPEN after its cooldown, and a call that asked
\* for its provider before that was refused.
C6_Witness ==
    \E p \in Providers, c \in Calls :
        /\ circuitBreakers[p].state = "HALF_OPEN"
        /\ now >= circuitBreakers[p].nextAttemptTime
        /\ calls[c].provider = p
        /\ calls[c].error.type = "PROVIDER_UNAVAILABLE"

\* C7: an OPEN breaker has its cooldown expiry set and a failure count of at
\* least the threshold.
C7_OpenInvariant ==
    \A p \in Providers :
        circuitBreakers[p].state = "OPEN" =>
            /\ circuitBreakers[p].nextAttemptTime # Null
            /\ circuitBreakers[p].failures >= circuitBreakerThreshold

\* C8: a call whose primary is OPEN before its nextAttemptTime at the start,
\* with one fallback whose breaker is CLOSED, makes no attempt on the primary
\* and goes on to invoke the fallback.
C8_OpenPrimaryFallsBack ==
    [][\A c \in Calls : \A p \in Providers :
          (/\ Starts(c, p)
           /\ Cooling(p)
           /\ Len(calls'[c].fallbackProviders) = 1
           /\ circuitBreakers[calls'[c].fallbackProviders[1]].state = "CLOSED") =>
              /\ calls'[c].pc = "awaitFallback"
              /\ Len(calls'[c].log) = 1
              /\ calls'[c].log[1].provider = calls'[c].fallbackProviders[1]]_vars

\* C9: after a primary attempt failed with a non-retryable error the call
\* makes no further attempt against the primary.
C9_FailFast ==
    \A c \in Calls :
        ~calls[c].lastError.isRetryable => calls[c].pc # "awaitPrimary"

SucceedsAt(c, i) ==
    /\ i \in DOMAIN calls[c].log
    /\ calls[c].log[i].outcome = "pending"
    /\ i \in DOMAIN calls'[c].log
    /\ calls'[c].log[i].outcome = "ok"

\* C11: the step in which an invocation of a call succeeds, in either loop,
\* ends the call: it returns that invocation's result, starts no further
\* invocation, and records one success, against the provider that succeeded
\* (its failure count reset, its breaker closed if it was HALF_OPEN, one
\* recordSuccess in its statistics) and against no other; every earlier
\* invocation of the call had failed, and a call that has ended takes no
\* further step but its removal.
C11_FirstSuccessEnds ==
    [][\A c \in Calls :
          /\ \A i \in DOMAIN calls[c].log :
                SucceedsAt(c, i) =>
                    LET p == calls[c].log[i].provider
                    IN /\ i = Len(calls[c].log)
                       /\ Len(calls'[c].log) = Len(calls[c].log)
                       /\ \A j \in 1..(i - 1) : calls'[c].log[j].outcome = "failed"
                       /\ calls'[c].pc = "done"
                       /\ calls'[c].outcome = "returned"
                       /\ calls'[c].result = i
                       /\ p = IF calls[c].log[i].stage = "primary"
                              THEN calls[c].provider
                              ELSE calls[c].fallbackProviders[calls[c].log[i].index]
                       /\ circuitBreakers' =
                             [circuitBreakers EXCEPT
                                 ![p].failures = 0,
                                 ![p].state = IF @ = "HALF_OPEN" THEN "CLOSED" ELSE @]
                       /\ errorStats' = recordSuccessStats(errorStats, p)
          /\ calls[c].pc = "done" =>
                /\ calls'[c] \in {calls[c], IdleCall}
                /\ calls'[c] = IdleCall =>
                      circuitBreakers' = circuitBreakers /\ errorStats' = errorStats]_vars

\* A call returned the result of its fallback after its primary had failed,
\* and the success was recorded against the fallback only: the primary keeps
\* its failure count.
C11_Witness ==
    \E c \in Calls :
        /\ calls[c].outcome = "returned"
        /\ Len(calls[c].log) >= 2
        /\ calls[c].log[calls[c].result].stage = "fallback"
        /\ calls[c].log[calls[c].result].provider # calls[c].provider
        /\ circuitBreakers[calls[c].log[calls[c].result].provider].failures = 0
        /\ circuitBreakers[calls[c].provider].failures >= 1

\* Call c takes a step that runs the fallback loop up to an invocation or to
\* the final throw.
WalksFallbacks(c) ==
    /\ calls[c].pc \in {"awaitPrimary", "delay", "awaitFallback"}
    /\ \/ calls'[c].pc = "awaitFallback" /\ Len(calls'[c].log) > Len(calls[c].log)
       \/ calls'[c].error.type = "ALL_PROVIDERS_FAILED"

\* Where in fallbackProviders the loop of call c is after the step: at the
\* fallback it invoked, or past the end.
FallbackReached(c) ==
    IF calls'[c].pc = "awaitFallback" THEN calls'[c].fb
    ELSE Len(calls[c].fallbackProviders) + 1

\* The provider whose attempt settles in a step of call c ("none" after a
\* delay).
SettledProvider(c) ==
    IF calls[c].pc = "delay" THEN "none"
    ELSE calls[c].log[Len(calls[c].log)].provider

RecordsOf(entry) ==
    {createVoiceError(s.error, entry.provider,
                      IF entry.stage = "primary" THEN entry.index ELSE 0) :
        s \in {x \in Settlements : ~x.ok}}

\* C13: a call that threw ALL_PROVIDERS_FAILED carries as lastError the record
\* of the last failed invocation it made: the last fallback's when a fallback
\* was attempted, else the last primary attempt's.
C13_LastErrorIsLastFailure ==
    \A c \in Calls :
        calls[c].error.type = "ALL_PROVIDERS_FAILED" =>
            /\ calls[c].log # <<>>
            /\ calls[c].log[Len(calls[c].log)].outcome = "failed"
            /\ calls[c].error.lastError \in RecordsOf(calls[c].log[Len(calls[c].log)])

\* C14: a call that has ended either returned or threw; it returned only if
\* one of its invocations resolved before the timer of its executeWithTimeout
\* fired, and what it returned is that invocation's result; a call none of
\* whose invocations resolved in time threw PROVIDER_UNAVAILABLE or
\* ALL_PROVIDERS_FAILED.
C14_ReturnOnlyOnSuccess ==
    \A c \in Calls :
        /\ calls[c].pc = "done" <=> calls[c].outcome \in {"returned", "threw"}
        /\ calls[c].outcome = "returned" =>
              /\ calls[c].result \in DOMAIN calls[c].log
              /\ calls[c].log[calls[c].result].outcome = "ok"
              /\ calls[c].error = NoThrow
        /\ calls[c].outcome = "threw" =>
              /\ calls[c].error.type \in {"PROVIDER_UNAVAILABLE", "ALL_PROVIDERS_FAILED"}
              /\ calls[c].result = 0
        /\ (calls[c].pc = "done"
              /\ \A i \in DOMAIN calls[c].log : calls[c].log[i].outcome # "ok") =>
              calls[c].outcome = "threw"

\* One call returned the result of the attempt that followed a timed-out
\* one; another, all of whose invocations failed, threw.
C14_Witness ==
    \E c, d \in Calls :
        /\ calls[c].outcome = "returned"
        /\ calls[c].lastError.type = "TIMEOUT"
        /\ calls[c].result = 2
        /\ calls[d].outcome = "threw"
        /\ Len(calls[d].log) >= 2
        /\ \A i \in DOMAIN calls[d].log : calls[d].log[i].outcome = "failed"

\* ------------------------------------------------- claims: realtime session

\* Session s runs its listener for an event of the given type in this step.
Handles(s, type) ==
    sessions'[s] # sessions[s] /\ sessions'[s].event.type = type

\* The audio_output messages among those sent to a client.
AudioOutputs(toClient) == SelectSeq(toClient, LAMBDA m : m.type = "audio_output")

\* What a step appends to a sequence that only grows.
Appended(before, after) == SubSeq(after, Len(before) + 1, Len(after))

\* C15: a session sends audio_output only while handling response.audio.done,
\* never while handling response.audio.delta; and handling a
\* response.audio.done with deltas pending, its client connected, it sends
\* exactly one audio_output and nothing else, and its buffer is empty
\* afterwards.
C15_OneOutputPerDone ==
    [][\A s \in Sessions :
          /\ AudioOutputs(sessions'[s].toClient) # AudioOutputs(sessions[s].toClient) =>
                Handles(s, "response.audio.done")
          /\ Handles(s, "response.audio.delta") =>
                sessions'[s].toClient = sessions[s].toClient
          /\ (/\ Handles(s, "response.audio.done")
              /\ sessions[s].audioBuffer # <<>>
              /\ sessions[s].clientWs = "OPEN") =>
                /\ Len(sessions'[s].toClient) = Len(sessions[s].toClient) + 1
                /\ Len(AudioOutputs(sessions'[s].toClient))
                      = Len(AudioOutputs(sessions[s].toClient)) + 1
                /\ sessions'[s].audioBuffer = <<>>]_vars

\* The bytes the texts decode to, each decoded by itself, in order.
RECURSIVE DecodedEach(_)
DecodedEach(texts) ==
    IF texts = <<>> THEN <<>>
    ELSE fromBase64(Head(texts)) \o DecodedEach(Tail(texts))

\* C16: the array an audio_output carries is made of the bytes the pending
\* delta texts decode to, in the order they arrived, and of nothing else.
C16_OutputIsDecodedDeltas ==
    [][\A s \in Sessions :
          AudioOutputs(sessions'[s].toClient) # AudioOutputs(sessions[s].toClient) =>
              LET audioArray == sessions'[s].toClient[Len(sessions'[s].toClient)].data
              IN /\ audioArray.bytes = DecodedEach(sessions[s].audioBuffer)
                 /\ audioArray.byteLength = Len(audioArray.bytes)]_vars

\* The texts of the input_audio_buffer.append messages sent upstream.
AppendedAudio(toOpenAI) ==
    LET appends == SelectSeq(toOpenAI, LAMBDA m : m.type = "input_audio_buffer.append")
    IN [i \in DOMAIN appends |-> appends[i].audio]

\* The samples a text decodes to when it is decoded once, as a whole.
DecodedOnce(text) == int16Samples(fromBase64(text))

\* C17: the encoded fragments of a session, joined and decoded once, give the
\* samples of the fragments in order: each fragment a session encodes and
\* forwards adds exactly its samples to what the joined text decodes to.
C17_RoundTrip ==
    [][\A s \in Sessions :
          (/\ Handles(s, "audio_input")
           /\ sessions'[s].toOpenAI # sessions[s].toOpenAI) =>
              DecodedOnce(join(AppendedAudio(sessions'[s].toOpenAI)))
                  = DecodedOnce(join(AppendedAudio(sessions[s].toOpenAI)))
                    \o sessions'[s].event.data]_vars

\* C18: the pending-audio buffer is empty once the listener for a provider
\* error message, for the closing or the failure of the upstream socket, for
\* response.done or for response.audio.done has run: it holds fragments only
\* from a delta to the response.audio.done that follows.
C18_BufferOnlyDuringResponse ==
    \A s \in Sessions :
        sessions[s].event.type \in
            {"error", "close", "socket error", "response.done", "response.audio.done"} =>
            sessions[s].audioBuffer = <<>>

\* C19: handling commit_audio while the upstream socket is open, a session
\* sends upstream input_audio_buffer.commit and then response.create, these
\* two and nothing else.
C19_CommitThenRespond ==
    [][\A s \in Sessions :
          (Handles(s, "commit_audio") /\ sessions[s].openaiWs = "OPEN") =>
              Appended(sessions[s].toOpenAI, sessions'[s].toOpenAI)
                  = <<ToOpenAI("input_audio_buffer.commit"), ToOpenAI("response.create")>>]_vars

\* A client sent audio and then commit_audio on an open session: the append,
\* the commit and the request went upstream after the configuration.
C19_Witness ==
    \E s \in Sessions :
        /\ sessions[s].event.type = "commit_audio"
        /\ Len(sessions[s].toOpenAI) = 4
        /\ sessions[s].toOpenAI[1].type = "session.update"
        /\ sessions[s].toOpenAI[2].type = "input_audio_buffer.append"
        /\ sessions[s].toOpenAI[3].type = "input_audio_buffer.commit"
        /\ sessions[s].toOpenAI[4].type = "response.create"

\* C20: handling commit_audio while no upstream socket is open, a session
\* sends nothing upstream and reports an error to its client.
C20_CommitNotConnected ==
    [][\A s \in Sessions :
          (Handles(s, "commit_audio") /\ sessions[s].openaiWs # "OPEN") =>
              /\ sessions'[s].toOpenAI = sessions[s].toOpenAI
              /\ Appended(sessions[s].toClient, sessions'[s].toClient)
                    = <<ToClient("error")>>]_vars

\* What a session is besides its record of the listeners that have run.
SessionState(x) ==
    [clientWs |-> x.clientWs, openaiWs |-> x.openaiWs,
     isConnectedToOpenAI |-> x.isConnectedToOpenAI, audioBuffer |-> x.audioBuffer,
     toClient |-> x.toClient, toOpenAI |-> x.toOpenAI]

\* C21: handling audio_input while its upstream socket is not open, a session
\* sends nothing upstream and nothing to its client, and its buffer, its
\* sockets and its connection flag stay as they are; and the audio is not
\* kept to be sent later: whatever audio a session appends upstream is the
\* encoding of the audio_input it is handling in that step.
C21_EarlyAudioDropped ==
    [][\A s \in Sessions :
          /\ (Handles(s, "audio_input") /\ sessions[s].openaiWs # "OPEN") =>
                SessionState(sessions'[s]) = SessionState(sessions[s])
          /\ AppendedAudio(sessions'[s].toOpenAI) # AppendedAudio(sessions[s].toOpenAI) =>
                /\ Handles(s, "audio_input")
                /\ Appended(sessions[s].toOpenAI, sessions'[s].toOpenAI)
                      = <<[type |-> "input_audio_buffer.append",
                           audio |-> toBase64(int16Bytes(sessions'[s].event.data))]>>]_vars

\* A client sent audio while the upstream socket was connecting: nothing has
\* been sent either way.
C21_Witness ==
    \E s \in Sessions :
        /\ sessions[s].event = [type |-> "audio_input", data |-> <<-2, 16961, 3>>]
        /\ sessions[s].openaiWs = "CONNECTING"
        /\ sessions[s].clientWs = "OPEN"
        /\ sessions[s].toClient = <<>>
        /\ sessions[s].toOpenAI = <<>>

\* C22: once the listener for the client's close or error has run, whatever
\* the session was doing, its upstream socket is neither connecting nor open
\* (it is closing or closed, or was never made); and cleanup a second time
\* changes nothing: the close that follows a client error leaves the session
\* as the error left it, but for the client socket being closed.
C22_ClientEndClosesUpstream ==
    [][\A s \in Sessions :
          (Handles(s, "client close") \/ Handles(s, "client error")) =>
              /\ sessions'[s].openaiWs \notin {"CONNECTING", "OPEN"}
              /\ cleanup(cleanup(sessions[s])) = cleanup(sessions[s])
              /\ sessions[s].clientWs = "CLOSING" =>
                    SessionState(sessions'[s])
                        = [SessionState(sessions[s]) EXCEPT !.clientWs = "CLOSED"]]_vars

\* A client failed and then closed while the upstream socket was still
\* connecting: the upstream socket is closing.
C22_Witness ==
    \E s \in Sessions :
        /\ sessions[s].event.type = "client close"
        /\ sessions[s].clientWs = "CLOSED"
        /\ sessions[s].openaiWs = "CLOSING"
        /\ ~sessions[s].isConnectedToOpenAI
        /\ sessions[s].toClient = <<>>

\* The events that end the upstream side of a session: a provider error
\* message, the closing and the failure of the upstream socket.
UpstreamFailures == {"error", "close", "socket error"}

\* C23: handling a provider error message or the closing or failure of its
\* upstream socket, a session tells its client (one message, when the client
\* is connected) and is torn down: afterwards its upstream socket is neither
\* connecting nor open, and the client message handled next on the session
\* sends nothing upstream.
C23_UpstreamFailureTearsDown ==
    [][\A s \in Sessions :
          /\ (\E type \in UpstreamFailures : Handles(s, type)) =>
                /\ sessions[s].clientWs = "OPEN" =>
                      Len(sessions'[s].toClient) = Len(sessions[s].toClient) + 1
                /\ sessions'[s].openaiWs \notin {"CONNECTING", "OPEN"}
          /\ (/\ sessions[s].event.type \in UpstreamFailures
              /\ \E type \in ClientMessageTypes : Handles(s, type)) =>
                sessions'[s].toOpenAI = sessions[s].toOpenAI]_vars

\* The session.update messages among those sent upstream.
Configurations(toOpenAI) == SelectSeq(toOpenAI, LAMBDA m : m.type = "session.update")

\* C24: a session makes its upstream socket when it is constructed and never
\* again: the socket starts connecting only in the step of the client's
\* connection, and is configured at most once. Handling a provider error
\* message, the session sends its client one error message (none when the
\* client is gone), sends nothing upstream and leaves its upstream socket and
\* its connection flag as they are.
C24_OneUpstreamConnection ==
    [][\A s \in Sessions :
          /\ (sessions'[s].openaiWs = "CONNECTING" /\ sessions[s].openaiWs # "CONNECTING") =>
                Handles(s, "connection")
          /\ Len(Configurations(sessions'[s].toOpenAI)) <= 1
          /\ Handles(s, "error") =>
                /\ Appended(sessions[s].toClient, sessions'[s].toClient)
                      = IF sessions[s].clientWs = "OPEN" THEN <<ToClient("error")>> ELSE <<>>
                /\ sessions'[s].toOpenAI = sessions[s].toOpenAI
                /\ sessions'[s].openaiWs = sessions[s].openaiWs
                /\ sessions'[s].isConnectedToOpenAI = sessions[s].isConnectedToOpenAI]_vars

\* A provider error message reached a session that had forwarded audio: the
\* client has the error, and upstream has the configuration and the audio,
\* once each.
C24_Witness ==
    \E s \in Sessions :
        /\ sessions[s].event.type = "error"
        /\ sessions[s].openaiWs = "OPEN"
        /\ sessions[s].toClient = <<ToClient("connected"), ToClient("error")>>
        /\ Len(sessions[s].toOpenAI) = 2
        /\ sessions[s].toOpenAI[2].type = "input_audio_buffer.append"

\* The types of the messages the proxy is to send to a client.
ClientProtocolTypes ==
    {"connected", "speech_started", "speech_stopped", "transcript_input",
     "audio_output", "response_complete", "error"}

\* C25: every message a session has sent to its client has one of the types
\* connected, speech_started, speech_stopped, transcript_input, audio_output,
\* response_complete and error.
C25_ClientMessageTypes ==
    \A s \in Sessions :
        \A i \in DOMAIN sessions[s].toClient :
            sessions[s].toClient[i].type \in ClientProtocolTypes

\* C26: the first message a session sends upstream is session.update, sent by
\* the listener for the opening of the upstream socket and by it alone; so no
\* append, commit or response.create goes upstream before it, and a client
\* that has been sent connected has a session whose configuration has been
\* sent.
C26_ConfigurationFirst ==
    [][\A s \in Sessions :
          /\ sessions'[s].toOpenAI # <<>> =>
                sessions'[s].toOpenAI[1] = ToOpenAI("session.update")
          /\ Configurations(sessions'[s].toOpenAI) # Configurations(sessions[s].toOpenAI) =>
                Handles(s, "open")
          /\ Handles(s, "open") =>
                Appended(sessions[s].toOpenAI, sessions'[s].toOpenAI)
                    = <<ToOpenAI("session.update")>>
          /\ (\E i \in DOMAIN sessions'[s].toClient :
                  sessions'[s].toClient[i].type = "connected") =>
                Len(Configurations(sessions'[s].toOpenAI)) = 1]_vars

\* A client sent a message while the upstream socket was connecting, the
\* socket opened, and the client sent audio: upstream has the configuration
\* and then the one append.
C26_Witness ==
    \E s \in Sessions :
        /\ sessions[s].messages = 2
        /\ sessions[s].toClient = <<ToClient("connected")>>
        /\ Len(sessions[s].toOpenAI) = 2
        /\ sessions[s].toOpenAI[1].type = "session.update"
        /\ sessions[s].toOpenAI[2].type = "input_audio_buffer.append"

\* C27: a step in which one session runs a listener leaves every other
\* session as it was: its buffer, its sockets and its connection flag, what
\* has been sent to its client and what has been sent on its upstream socket.
C27_SessionsIndependent ==
    [][\A s \in PairSessions : \A t \in PairSessions \ {s} :
          sessions'[s] # sessions[s] => sessions'[t] = sessions[t]]_vars

\* Two sessions are open at once, one with response audio pending and
\* nothing forwarded, the other with audio forwarded and nothing pending.
C27_Witness ==
    \E s \in PairSessions : \E t \in PairSessions \ {s} :
        /\ sessions[s].openaiWs = "OPEN" /\ sessions[t].openaiWs = "OPEN"
        /\ sessions[s].clientWs = "OPEN" /\ sessions[t].clientWs = "OPEN"
        /\ sessions[s].audioBuffer # <<>> /\ sessions[t].audioBuffer = <<>>
        /\ Len(sessions[s].toOpenAI) = 1 /\ Len(sessions[t].toOpenAI) = 2

\* ------------------------------------------------- claims: error handler

\* The invocations at the end of a log that failed, all on one provider.
RECURSIVE FailedRun(_)
FailedRun(log) ==
    IF log = <<>> \/ log[Len(log)].outcome # "failed" THEN 0
    ELSE IF Len(log) > 1 /\ log[Len(log) - 1].provider # log[Len(log)].provider THEN 1
    ELSE 1 + FailedRun(SubSeq(log, 1, Len(log) - 1))

\* C28: every provider a call has invoked has a breaker; and in the step in
\* which an invocation fails and is the last of circuitBreakerThreshold
\* failures in a row of the call on one provider, that provider becomes
\* unavailable: isProviderAvailable is false of it right after.
C28_BreakerForAnyProvider ==
    [][\A c \in Calls :
          /\ \A i \in DOMAIN calls'[c].log :
                calls'[c].log[i].provider \in DOMAIN circuitBreakers'
          /\ (/\ calls[c].pc \in {"awaitPrimary", "awaitFallback"}
              /\ calls'[c].log # <<>>
              /\ FailedRun(calls'[c].log) > FailedRun(calls[c].log)
              /\ FailedRun(calls'[c].log) >= circuitBreakerThreshold) =>
                ~isProviderAvailable(circuitBreakers',
                                     calls'[c].log[Len(calls'[c].log)].provider, now')]_vars

\* The error kinds, by the names createVoiceError gives them.
ErrorKinds ==
    {"AUTHENTICATION_ERROR", "AUTHORIZATION_ERROR", "NOT_FOUND", "RATE_LIMIT_ERROR",
     "SERVER_ERROR", "NETWORK_ERROR", "TIMEOUT", "PARSE_ERROR", "UNKNOWN_ERROR"}

NonRetryableKinds == {"AUTHENTICATION_ERROR", "AUTHORIZATION_ERROR", "NOT_FOUND"}

\* C29: the record createVoiceError makes of a failure has one of the nine
\* kinds, is not retryable exactly when its kind is AUTHENTICATION_ERROR,
\* AUTHORIZATION_ERROR or NOT_FOUND, and is not retryable when the message
\* of the failure holds 401, 403 or 404.
C29_ClassificationClosed ==
    \A c \in Calls :
        calls[c].lastError # NoError =>
            /\ calls[c].lastError.type \in ErrorKinds
            /\ calls[c].lastError.isRetryable
                  = (calls[c].lastError.type \notin NonRetryableKinds)
            /\ calls[c].lastError.message \cap {"401", "403", "404"} # {} =>
                  ~calls[c].lastError.isRetryable

\* C30: the delay calculateRetryDelay returns for attempt a and jitter j is
\* min(retryDelay * 2^a + j, 30000): it is at most 30000 and at least
\* min(retryDelay * 2^a, 30000), the delay without jitter, and the delay
\* without jitter for attempt a is at least that for attempt a - 1.
C30_DelayBounds ==
    backoff # NoBackoff =>
        LET a == backoff.attempt
            lower == calculateRetryDelay(retryDelay, a, 0)
        IN /\ backoff.jitter >= 0 /\ backoff.jitter < JitterRange
           /\ backoff.delay = Min(retryDelay * Pow2(a) + backoff.jitter, 30000)
           /\ backoff.delay <= 30000
           /\ lower = Min(retryDelay * Pow2(a), 30000)
           /\ backoff.delay >= lower
           /\ a > 0 => lower >= calculateRetryDelay(retryDelay, a - 1, 0)

\* With the default retryDelay of 1000 the delay for attempt 5 is the cap,
\* whatever the jitter.
C30_Witness ==
    /\ retryDelay = 1000
    /\ backoff.attempt = 5
    /\ backoff.jitter = 999
    /\ backoff.delay = 30000

\* C31: when a failed primary attempt is followed by the wait of the backoff
\* delay, attempts remain (attempt < retries) and the failure has not left
\* the primary's breaker OPEN.
C31_DelayOnlyBeforeRetry ==
    [][\A c \in Calls :
          (calls[c].pc = "awaitPrimary" /\ calls'[c].pc = "delay") =>
              /\ calls'[c].attempt < calls'[c].retries
              /\ BreakerStateOf(circuitBreakers', calls[c].provider) # "OPEN"]_vars

\* The invocations against provider p that settle in this step as given.
SettlesNow(p, how) ==
    {<<c, i>> \in Calls \X (1..(MaxRetriesArg + 1 + MaxFallbackList)) :
        /\ i \in DOMAIN calls[c].log
        /\ calls[c].log[i].provider = p
        /\ calls[c].log[i].outcome = "pending"
        /\ i \in DOMAIN calls'[c].log
        /\ calls'[c].log[i].outcome = how}

\* C32: an invocation settles once, as failed (the operation rejected or the
\* timer fired) or as ok, and is charged to its provider in the step it
\* settles: a failure adds exactly one to the provider's failure count and
\* one to its totalErrors, a success resets the failure count and adds no
\* error; and a step in which no invocation against a provider settles (the
\* operation completing after the timer fired is no step at all) changes
\* neither its failure count nor its totalErrors.
C32_ChargedOnce ==
    [][/\ \A p \in Providers :
            LET failed == Cardinality(SettlesNow(p, "failed"))
                ok == Cardinality(SettlesNow(p, "ok"))
            IN /\ failed + ok <= 1
               /\ errorStats'[p].totalErrors = errorStats[p].totalErrors + failed
               /\ circuitBreakers'[p].failures =
                     IF ok = 1 THEN 0 ELSE circuitBreakers[p].failures + failed
       /\ \A c \in Calls : \A i \in DOMAIN calls[c].log :
            (calls[c].log[i].outcome # "pending" /\ calls'[c] # IdleCall) =>
                /\ i \in DOMAIN calls'[c].log
                /\ calls'[c].log[i] = calls[c].log[i]]_vars

\* A call whose two attempts on the primary timed out and whose third
\* succeeded: two errors are on the provider's account and its failure count
\* is back to 0.
C32_Witness ==
    \E c \in Calls :
        /\ calls[c].outcome = "returned"
        /\ calls[c].timeoutsOnly
        /\ Len(calls[c].log) = 3
        /\ \A i \in 1..3 : calls[c].log[i].provider = calls[c].provider
        /\ calls[c].log[1].outcome = "failed" /\ calls[c].log[2].outcome = "failed"
        /\ errorStats[calls[c].provider].totalErrors = 2
        /\ circuitBreakers[calls[c].provider].failures = 0

\* C33: on an event loop whose timers fire, every call that has started
\* ends, by returning or by throwing, even when no operation ever completes:
\* a pending attempt is ended by its timer, with TIMEOUT.
C33_CallsEnd ==
    \A c \in Calls : (calls[c].pc # "idle") ~> (calls[c].pc = "done")

\* A call ended by throwing after every one of its attempts, on the primary
\* and on its fallback, had timed out.
C33_Witness ==
    \E c \in Calls :
        /\ calls[c].pc = "done"
        /\ calls[c].outcome = "threw"
        /\ calls[c].timeoutsOnly
        /\ calls[c].retries >= 1
        /\ Len(calls[c].log) = calls[c].retries + 2
        /\ calls[c].log[Len(calls[c].log)].stage = "fallback"
        /\ calls[c].error.lastError.type = "TIMEOUT"

\* C34: the attempts value of an ALL_PROVIDERS_FAILED error is the number of
\* attempts the call made against its primary provider, whether the retry
\* loop ran to exhaustion or stopped early on an opened breaker.
C34_AttemptsIsCount ==
    \A c \in Calls :
        (calls[c].pc = "done" /\ calls[c].error.type = "ALL_PROVIDERS_FAILED") =>
            calls[c].error.attempts = Cardinality(PrimaryInvocations(c))

\* C37: in every reachable state a CLOSED breaker has counted fewer failures
\* than the threshold.
C37_ClosedBelowThreshold ==
    \A p \in DOMAIN circuitBreakers :
        circuitBreakers[p].state = "CLOSED" =>
            circuitBreakers[p].failures < circuitBreakerThreshold

\* A breaker that is CLOSED one failure short of the threshold, having
\* recorded more errors than it counts: its count was cleared before.
C37_Witness ==
    \E p \in DOMAIN circuitBreakers :
        /\ circuitBreakers[p].state = "CLOSED"
        /\ circuitBreakers[p].failures = circuitBreakerThreshold - 1
        /\ errorStats[p].totalErrors > circuitBreakerThreshold

\* Provider p's breaker is OPEN and its cooldown is over.
CooledDown(p) ==
    /\ circuitBreakers[p].state = "OPEN"
    /\ now >= circuitBreakers[p].nextAttemptTime

\* An attempt against provider p, made with its breaker HALF_OPEN, is pending.
TrialPending(p) ==
    \E c \in Calls :
        /\ calls[c].pc \in {"awaitPrimary", "awaitFallback"}
        /\ calls[c].log[Len(calls[c].log)].provider = p
        /\ calls[c].log[Len(calls[c].log)].during = "HALF_OPEN"

\* C35: while calls naming a provider keep being made, its breaker, OPEN with
\* the cooldown over, eventually is HALF_OPEN with a trial attempt made; and,
\* the provider's operation succeeding from then on, a HALF_OPEN breaker
\* eventually is CLOSED with failure count 0.
C35_BreakerRecovers ==
    \A p \in Providers :
        /\ (CooledDown(p) /\ errorStats[p].totalRequests < MaxRequests)
               ~> (circuitBreakers[p].state = "HALF_OPEN" /\ TrialPending(p))
        /\ (circuitBreakers[p].state = "HALF_OPEN")
               ~> (circuitBreakers[p].state = "CLOSED" /\ circuitBreakers[p].failures = 0)

\* A breaker CLOSED again with count 0 after it had opened: the threshold's
\* failures are on record and the cooldown is over.
C35_Witness ==
    \E p \in Providers :
        /\ circuitBreakers[p].state = "CLOSED"
        /\ circuitBreakers[p].failures = 0
        /\ circuitBreakers[p].nextAttemptTime # Null
        /\ now >= circuitBreakers[p].nextAttemptTime
        /\ errorStats[p].totalErrors >= circuitBreakerThreshold

\* ------------------------------------------------- claims: voice router

\* C36: on an adapter of one of the four implemented classes whose connect()
\* resolved, disconnect() completes without raising.
C36_ConnectThenDisconnect ==
    (/\ adapter.class \in AdapterClasses
     /\ adapter.connecting = "resolved"
     /\ adapter.last.op = "disconnect") => adapter.last.raised = "none"

\* C38: when a one-shot endpoint has sent its response and had called
\* connect() on its adapter, it has called disconnect() on it.
C38_DisconnectedBeforeResponse ==
    (endpoint.pc = "responded" /\ adapter.connectCalled) => adapter.disconnectCalled

\* C39: a streaming adapter's isConnected is true only while its socket is
\* open.
C39_ConnectedOnlyWhileOpen ==
    (adapter.class \in Streaming /\ adapter.isConnected) => adapter.websocket = "OPEN"

====
